---- MODULE Spec2Model ----
(***************************************************************************)
(* Streaming chat protocol layer of the chat language-model providers      *)
(* (OpenAI, Anthropic, Ollama) and the chat agent that consumes them.      *)
(*                                                                         *)
(* Text.  A string is a sequence of code units, each written as a TLA+     *)
(* string: an ASCII character is the one-character string itself ("\n" is *)
(* the line feed), "U+E9" is the code unit U+00E9 and "U+FFFD" the         *)
(* replacement character.  A response body is a sequence of bytes: an      *)
(* ASCII byte is written as its character, "xC3" and "xA9" are the two     *)
(* bytes of the UTF-8 encoding of U+00E9.                                  *)
(***************************************************************************)
EXTENDS Integers, Sequences, FiniteSets, TLC

----------------------------------------------------------------------------
(* String primitives of the JavaScript runtime used by the decoders.       *)

\* s.startsWith(p)
StartsWith(s, p) == Len(s) >= Len(p) /\ SubSeq(s, 1, Len(p)) = p

\* s.slice(n) for 0 <= n
Slice(s, n) == SubSeq(s, n + 1, Len(s))

\* The least i in from..to with s[i] in stops, or to + 1 when there is none.
FirstIn(s, from, to, stops) ==
    CHOOSE i \in from..(to + 1) :
        /\ i = to + 1 \/ s[i] \in stops
        /\ \A j \in from..(i - 1) : s[j] \notin stops

\* The least i in from..to with s[i] not in skip, or to + 1 when there is none.
FirstNotIn(s, from, to, skip) ==
    CHOOSE i \in from..(to + 1) :
        /\ i = to + 1 \/ s[i] \notin skip
        /\ \A j \in from..(i - 1) : s[j] \in skip

\* s.split('\n'): the segments between line feeds, always at least one.
Split(s) ==
    LET feeds == {i \in 1..Len(s) : s[i] = "\n"}
        \* the position of the k-th line feed; 0 for k = 0, Len(s) + 1 past the last
        at(k) == IF k = 0 THEN 0
                 ELSE IF k > Cardinality(feeds) THEN Len(s) + 1
                 ELSE CHOOSE i \in feeds : Cardinality({j \in feeds : j < i}) = k - 1
    IN [k \in 1..(Cardinality(feeds) + 1) |-> SubSeq(s, at(k - 1) + 1, at(k) - 1)]

\* The characters String.prototype.trim removes, among those of the alphabet.
TrimSpace == {" ", "\t", "\r", "\n"}

\* s.trim()
Trim(s) ==
    LET first == FirstNotIn(s, 1, Len(s), TrimSpace)
        last == CHOOSE i \in 0..Len(s) :
                    /\ i = 0 \/ s[i] \notin TrimSpace
                    /\ \A j \in (i + 1)..Len(s) : s[j] \in TrimSpace
    IN SubSeq(s, first, last)

----------------------------------------------------------------------------
(* TextDecoder('utf-8').decode(bytes, {stream: true}).  `pending` is the   *)
(* decoder's own state: 1 when the lead byte xC3 of a two-byte sequence    *)
(* ended the previous chunk, else 0.  A continuation byte with no lead,    *)
(* or a lead followed by something else, decodes to U+FFFD.                *)

\* decoder.decode(value, { stream: true })
DecodeStream(pending, bytes) ==
    LET in == (IF pending = 1 THEN <<"xC3">> ELSE <<>>) \o bytes
        n == Len(in)
        \* what the byte at i adds to the text: a code unit, or "" for none
        unit(i) ==
            CASE in[i] = "xC3" ->
                    IF i = n THEN ""
                    ELSE IF in[i + 1] = "xA9" THEN "U+E9" ELSE "U+FFFD"
              [] in[i] = "xA9" ->
                    IF i > 1 /\ in[i - 1] = "xC3" THEN "" ELSE "U+FFFD"
              [] OTHER -> in[i]
    IN [text |-> SelectSeq([i \in 1..n |-> unit(i)], LAMBDA c : c # ""),
        pending |-> IF n > 0 /\ in[n] = "xC3" THEN 1 ELSE 0]

----------------------------------------------------------------------------
(* JSON values and JSON.parse, for the JSON texts over the alphabet:       *)
(* objects, arrays, strings without escapes, unsigned integers, true,      *)
(* false, null, and insignificant white space.                             *)

JString(cs) == [t |-> "string", v |-> cs]
JNumber(n) == [t |-> "number", v |-> n]
JBool(b) == [t |-> "boolean", v |-> b]
JNull == [t |-> "null", v |-> 0]
JArray(xs) == [t |-> "array", v |-> xs]
JObject(ms) == [t |-> "object", v |-> ms]
Undefined == [t |-> "undefined", v |-> 0]

JsonSpace == {" ", "\t", "\n", "\r"}
Digits == {"0", "1", "2", "3", "4", "5", "6", "7", "8", "9"}
DigitVal(c) == CASE c = "0" -> 0 [] c = "1" -> 1 [] c = "2" -> 2 [] c = "3" -> 3
                 [] c = "4" -> 4 [] c = "5" -> 5 [] c = "6" -> 6 [] c = "7" -> 7
                 [] c = "8" -> 8 [] c = "9" -> 9

\* Characters that may not appear unescaped in a JSON string.
StringStop == {"\n", "\r", "\t", "\\"}

ParseFail == [ok |-> FALSE, v |-> Undefined, i |-> 0]
ParseOk(v, i) == [ok |-> TRUE, v |-> v, i |-> i]

SkipWs(s, i) == IF i > Len(s) THEN i ELSE FirstNotIn(s, i, Len(s), JsonSpace)

\* s[i..] after an opening quote: the characters up to the closing quote.
ScanString(s, i) ==
    LET j == IF i > Len(s) THEN i ELSE FirstIn(s, i, Len(s), StringStop \cup {"\""}) IN
    IF j > Len(s) \/ s[j] # "\"" THEN ParseFail
    ELSE ParseOk(JString(SubSeq(s, i, j - 1)), j + 1)

RECURSIVE ScanDigits(_, _, _)
ScanDigits(s, i, n) ==
    IF i <= Len(s) /\ s[i] \in Digits THEN ScanDigits(s, i + 1, 10 * n + DigitVal(s[i]))
    ELSE ParseOk(JNumber(n), i)

ParseLiteral(s, i, word, v) ==
    IF i + Len(word) - 1 <= Len(s) /\ SubSeq(s, i, i + Len(word) - 1) = word THEN ParseOk(v, i + Len(word)) ELSE ParseFail

RECURSIVE ParseValue(_, _)
RECURSIVE ParseElements(_, _, _, _)
RECURSIVE ParseMembers(_, _, _, _)

ParseValue(s, i) ==
    LET j == SkipWs(s, i) IN
    IF j > Len(s) THEN ParseFail
    ELSE CASE s[j] = "{" -> ParseMembers(s, j + 1, <<>>, TRUE)
           [] s[j] = "[" -> ParseElements(s, j + 1, <<>>, TRUE)
           [] s[j] = "\"" -> ScanString(s, j + 1)
           [] s[j] = "0" -> ParseOk(JNumber(0), j + 1)
           [] s[j] \in Digits \ {"0"} -> ScanDigits(s, j, 0)
           [] s[j] = "t" -> ParseLiteral(s, j, <<"t", "r", "u", "e">>, JBool(TRUE))
           [] s[j] = "f" -> ParseLiteral(s, j, <<"f", "a", "l", "s", "e">>, JBool(FALSE))
           [] s[j] = "n" -> ParseLiteral(s, j, <<"n", "u", "l", "l">>, JNull)
           [] OTHER -> ParseFail

ParseElements(s, i, acc, first) ==
    LET j == SkipWs(s, i) IN
    IF j > Len(s) THEN ParseFail
    ELSE IF first /\ s[j] = "]" THEN ParseOk(JArray(acc), j + 1)
    ELSE LET r == ParseValue(s, j) IN
         IF ~r.ok THEN ParseFail
         ELSE LET k == SkipWs(s, r.i) IN
              IF k > Len(s) THEN ParseFail
              ELSE IF s[k] = "," THEN ParseElements(s, k + 1, Append(acc, r.v), FALSE)
              ELSE IF s[k] = "]" THEN ParseOk(JArray(Append(acc, r.v)), k + 1)
              ELSE ParseFail

ParseMembers(s, i, acc, first) ==
    LET j == SkipWs(s, i) IN
    IF j > Len(s) THEN ParseFail
    ELSE IF first /\ s[j] = "}" THEN ParseOk(JObject(acc), j + 1)
    ELSE IF s[j] # "\"" THEN ParseFail
    ELSE LET key == ScanString(s, j + 1) IN
         IF ~key.ok THEN ParseFail
         ELSE LET c == SkipWs(s, key.i) IN
              IF c > Len(s) \/ s[c] # ":" THEN ParseFail
              ELSE LET r == ParseValue(s, c + 1) IN
                   IF ~r.ok THEN ParseFail
                   ELSE LET k == SkipWs(s, r.i)
                            ms == Append(acc, [k |-> key.v.v, val |-> r.v])
                        IN IF k > Len(s) THEN ParseFail
                           ELSE IF s[k] = "," THEN ParseMembers(s, k + 1, ms, FALSE)
                           ELSE IF s[k] = "}" THEN ParseOk(JObject(ms), k + 1)
                           ELSE ParseFail

\* A parsed value followed by anything but white space is a syntax error.
WholeText(text, r) ==
    IF r.ok /\ SkipWs(text, r.i) = Len(text) + 1 THEN r ELSE ParseFail

\* JSON.parse(text): ok is FALSE where JSON.parse throws a SyntaxError.
JSONParse(text) == WholeText(text, ParseValue(text, 1))

----------------------------------------------------------------------------
(* Property access and truthiness of parsed values.                        *)

\* x is null or undefined: x.p throws a TypeError, x?.p is undefined.
Nullish(x) == x.t \in {"null", "undefined"}

RECURSIVE Lookup(_, _, _)
\* The value of the last member named key among the first n members.
Lookup(ms, n, key) ==
    IF n = 0 THEN Undefined
    ELSE IF ms[n].k = key THEN ms[n].val
    ELSE Lookup(ms, n - 1, key)

\* x.key for a named own property key, x neither null nor undefined.
GetProp(x, key) == IF x.t = "object" THEN Lookup(x.v, Len(x.v), key) ELSE Undefined

\* x?.key
OptProp(x, key) == IF Nullish(x) THEN Undefined ELSE GetProp(x, key)

\* x?.[0]
OptIndex0(x) ==
    IF Nullish(x) THEN Undefined
    ELSE CASE x.t = "array" -> IF x.v = <<>> THEN Undefined ELSE x.v[1]
           [] x.t = "string" -> IF x.v = <<>> THEN Undefined ELSE JString(<<x.v[1]>>)
           [] x.t = "object" -> Lookup(x.v, Len(x.v), <<"0">>)
           [] OTHER -> Undefined

\* if (x)
Truthy(x) ==
    CASE x.t = "string" -> x.v # <<>>
      [] x.t = "number" -> x.v # 0
      [] x.t = "boolean" -> x.v
      [] x.t \in {"null", "undefined"} -> FALSE
      [] OTHER -> TRUE
KeyChoices == <<"c", "h", "o", "i", "c", "e", "s">>
KeyDelta == <<"d", "e", "l", "t", "a">>
KeyContent == <<"c", "o", "n", "t", "e", "n", "t">>
KeyType == <<"t", "y", "p", "e">>
KeyText == <<"t", "e", "x", "t">>
KeyMessage == <<"m", "e", "s", "s", "a", "g", "e">>
DataPrefix == <<"d", "a", "t", "a", ":", " ">>
DoneMarker == <<"[", "D", "O", "N", "E", "]">>
ContentBlockDelta == <<"c", "o", "n", "t", "e", "n", "t", "_", "b", "l", "o", "c", "k", "_", "d", "e", "l", "t", "a">>

----------------------------------------------------------------------------
(* Delta extraction: the body of the decoders' loop over the complete      *)
(* lines of a chunk.  A line's result is the values it yields (none or     *)
(* one) and the name of the error it throws ("" for none).                 *)

Yields(out) == [thrown |-> "", out |-> out]
Throws(name) == [thrown |-> name, out |-> <<>>]

\* As SkipInvalid, with no catch around the try block.
Uncaught(r) == r

\* catch (e) { /* Skip invalid JSON */ }
SkipInvalid(r) == IF r.thrown # "" THEN Yields(<<>>) ELSE r

\* if (value) { yield value; }
YieldIf(value) == IF Truthy(value) THEN Yields(<<value>>) ELSE Yields(<<>>)

\* What the try block does with the outcome of JSON.parse: a SyntaxError when the
\* text is not JSON, a TypeError on reading a property of null, else r, what the
\* statements after the parse do with the value.
TryBlock(parsed, r) ==
    IF ~parsed.ok THEN Throws("SyntaxError")
    ELSE IF Nullish(parsed.v) THEN Throws("TypeError")
    ELSE r

\* const content = parsed.choices?.[0]?.delta?.content; if (content) { yield content; }
OpenAIDelta(parsed) ==
    YieldIf(OptProp(OptProp(OptIndex0(GetProp(parsed, KeyChoices)), KeyDelta), KeyContent))

\* streamOpenAIResponse: the try block, parsed being the outcome of JSON.parse(data)
OpenAITry(parsed) == TryBlock(parsed, OpenAIDelta(parsed.v))

\* if (data === '[DONE]') { continue; } try { ... } catch (e) { }
OpenAIData(data) ==
    IF data = DoneMarker THEN Yields(<<>>) ELSE SkipInvalid(OpenAITry(JSONParse(data)))

\* streamOpenAIResponse: one line
OpenAILine(line) ==
    IF StartsWith(line, DataPrefix) THEN OpenAIData(Slice(line, 6)) ELSE Yields(<<>>)

\* As AnthropicDelta, with no test of the event type.
AnthropicDeltaAnyType(parsed) == YieldIf(OptProp(GetProp(parsed, KeyDelta), KeyText))

\* if (parsed.type === 'content_block_delta' && parsed.delta?.text) { yield parsed.delta.text; }
AnthropicDelta(parsed) ==
    IF GetProp(parsed, KeyType) = JString(ContentBlockDelta)
    THEN YieldIf(OptProp(GetProp(parsed, KeyDelta), KeyText))
    ELSE Yields(<<>>)

\* streamAnthropicResponse: the try block, parsed being the outcome of JSON.parse(data)
AnthropicTry(parsed) == TryBlock(parsed, AnthropicDelta(parsed.v))

\* streamAnthropicResponse: one line
AnthropicLine(line) ==
    IF StartsWith(line, DataPrefix) THEN SkipInvalid(AnthropicTry(JSONParse(Slice(line, 6))))
    ELSE Yields(<<>>)

\* if (parsed.message?.content) { yield parsed.message.content; }
OllamaDelta(parsed) == YieldIf(OptProp(GetProp(parsed, KeyMessage), KeyContent))

\* streamOllamaResponse: the try block, parsed being the outcome of JSON.parse(line)
OllamaTry(parsed) == TryBlock(parsed, OllamaDelta(parsed.v))

\* streamOllamaResponse: one line
OllamaLine(line) ==
    IF Trim(line) = <<>> THEN Yields(<<>>) ELSE SkipInvalid(OllamaTry(JSONParse(line)))

Vendors == {"openai", "anthropic", "ollama"}

\* The loop body of the vendor's decoder.
ExtractLine(vendor, line) ==
    CASE vendor = "openai" -> OpenAILine(line)
      [] vendor = "anthropic" -> AnthropicLine(line)
      [] vendor = "ollama" -> OllamaLine(line)

----------------------------------------------------------------------------
(* The frames response bodies are made of, as bytes.  For each vendor the  *)
(* first two carry the text deltas "a" and U+00E9; the others carry none.  *)

OpenAIFrames ==
    <<
      \* data: {"choices":[{"delta":{"content":"a"}}]}
      <<"d", "a", "t", "a", ":", " ", "{", "\"", "c", "h", "o", "i", "c", "e", "s",
         "\"", ":", "[", "{", "\"", "d", "e", "l", "t", "a", "\"", ":", "{", "\"",
         "c", "o", "n", "t", "e", "n", "t", "\"", ":", "\"", "a", "\"", "}", "}", "]",
         "}">>,
      \* data: {"choices":[{"delta":{"content":"é"}}]}
      <<"d", "a", "t", "a", ":", " ", "{", "\"", "c", "h", "o", "i", "c", "e", "s",
         "\"", ":", "[", "{", "\"", "d", "e", "l", "t", "a", "\"", ":", "{", "\"",
         "c", "o", "n", "t", "e", "n", "t", "\"", ":", "\"", "xC3", "xA9", "\"", "}",
         "}", "]", "}">>,
      \* ''
      <<>>,
      \* : k
      <<":", " ", "k">>,
      \* data: {
      <<"d", "a", "t", "a", ":", " ", "{">>,
      \* data: {}
      <<"d", "a", "t", "a", ":", " ", "{", "}">>,
      \* data: [DONE]
      <<"d", "a", "t", "a", ":", " ", "[", "D", "O", "N", "E", "]">>
    >>

AnthropicFrames ==
    <<
      \* data: {"type":"content_block_delta","delta":{"text":"a"}}
      <<"d", "a", "t", "a", ":", " ", "{", "\"", "t", "y", "p", "e", "\"", ":", "\"",
         "c", "o", "n", "t", "e", "n", "t", "_", "b", "l", "o", "c", "k", "_", "d",
         "e", "l", "t", "a", "\"", ",", "\"", "d", "e", "l", "t", "a", "\"", ":", "{",
         "\"", "t", "e", "x", "t", "\"", ":", "\"", "a", "\"", "}", "}">>,
      \* data: {"type":"content_block_delta","delta":{"text":"é"}}
      <<"d", "a", "t", "a", ":", " ", "{", "\"", "t", "y", "p", "e", "\"", ":", "\"",
         "c", "o", "n", "t", "e", "n", "t", "_", "b", "l", "o", "c", "k", "_", "d",
         "e", "l", "t", "a", "\"", ",", "\"", "d", "e", "l", "t", "a", "\"", ":", "{",
         "\"", "t", "e", "x", "t", "\"", ":", "\"", "xC3", "xA9", "\"", "}", "}">>,
      \* ''
      <<>>,
      \* : k
      <<":", " ", "k">>,
      \* data: {
      <<"d", "a", "t", "a", ":", " ", "{">>,
      \* data: {"type":"ping"}
      <<"d", "a", "t", "a", ":", " ", "{", "\"", "t", "y", "p", "e", "\"", ":", "\"",
         "p", "i", "n", "g", "\"", "}">>
    >>

OllamaFrames ==
    <<
      \* {"message":{"content":"a"}}
      <<"{", "\"", "m", "e", "s", "s", "a", "g", "e", "\"", ":", "{", "\"", "c", "o",
         "n", "t", "e", "n", "t", "\"", ":", "\"", "a", "\"", "}", "}">>,
      \* {"message":{"content":"é"}}
      <<"{", "\"", "m", "e", "s", "s", "a", "g", "e", "\"", ":", "{", "\"", "c", "o",
         "n", "t", "e", "n", "t", "\"", ":", "\"", "xC3", "xA9", "\"", "}", "}">>,
      \* ' '
      <<" ">>,
      \* {
      <<"{">>,
      \* {"done":true}
      <<"{", "\"", "d", "o", "n", "e", "\"", ":", "t", "r", "u", "e", "}">>,
      \* null
      <<"n", "u", "l", "l">>
    >>

Frames(vendor) ==
    CASE vendor = "openai" -> OpenAIFrames
      [] vendor = "anthropic" -> AnthropicFrames
      [] vendor = "ollama" -> OllamaFrames

\* The frames of each vendor that carry a text delta: the first two.
DeltaFrames == {1, 2}

----------------------------------------------------------------------------
(* Bounds of the model.                                                    *)

\* Complete (newline-terminated) lines of a response body.
MaxLines == 2

\* A chunk boundary falls within ChunkEdge bytes of a line's start or end, or at
\* the end of the body: every cut of a line of up to 2 * ChunkEdge + 1 bytes.
ChunkEdge == 7

----------------------------------------------------------------------------
(* Response bodies: up to MaxLines complete lines drawn from the vendor's  *)
(* frames, then an optional unterminated last line.                        *)

RECURSIVE Concat(_, _, _)
\* The frames fs[ix[i]], fs[ix[i + 1]], ... each followed by a line feed.
Concat(fs, ix, i) ==
    IF i > Len(ix) THEN <<>> ELSE fs[ix[i]] \o <<"\n">> \o Concat(fs, ix, i + 1)

LineChoices(vendor) ==
    UNION {[1..k -> 1..Len(Frames(vendor))] : k \in 0..MaxLines}

\* The unterminated last line: none (0), or the first delta frame without its line feed.
TailChoices == {0, 1}

BodyOf(vendor, ix, tail) ==
    Concat(Frames(vendor), ix, 1) \o (IF tail = 0 THEN <<>> ELSE Frames(vendor)[tail])

\* Where the newline-terminated lines of a body end; 0 is the start of the body.
LineEdges(body) == {0} \cup {i \in 1..Len(body) : body[i] = "\n"}

\* The positions at which the transport may end a chunk.
CutPoints(body) ==
    LET edges == LineEdges(body) IN
    {p \in 1..Len(body) :
        \/ p = Len(body)
        \/ \E q \in edges : p - q \in (0 - ChunkEdge)..ChunkEdge}

\* response.statusText of a response that is not ok
StatusTexts == {"Unauthorized", ""}

ApiName(vendor) ==
    CASE vendor = "openai" -> "OpenAI"
      [] vendor = "anthropic" -> "Anthropic"
      [] vendor = "ollama" -> "Ollama"

\* new Error(`${vendor} API error: ${response.statusText}`)
ApiError(vendor, statusText) ==
    [name |-> "Error", message |-> <<ApiName(vendor), " API error: ", statusText>>]

\* new Error('No response body')
NoBodyError == [name |-> "Error", message |-> <<"No response body">>]

\* What fetch and reader.read reject with once the signal is aborted.
AbortError == [name |-> "AbortError", message |-> <<"The operation was aborted">>]

\* What fetch and reader.read reject with when the connection fails.
NetworkError == [name |-> "TypeError", message |-> <<"Failed to fetch">>]

\* What JSON.parse or a property access of the loop body throws.
LineError(name) == [name |-> name, message |-> <<name, " in the loop body">>]

NoError == [name |-> "", message |-> <<>>]

\* { type: 'text', value }
TextPart(value) == [type |-> "text", value |-> value]

----------------------------------------------------------------------------
VARIABLES
    stream,     \* one request: the generator, its transport, what it delivered
    token,      \* the request's CancellationToken
    progress,   \* the chat agent's progress calls, in order
    call        \* a call made before the stream exists: its arguments and result

vars == <<stream, token, progress, call>>

\* No call is under examination: the request has reached its provider.
NoCall == [op |-> "none"]

\* History: no cancellation listener has run for the stream.
NoSignal == [pc |-> "none", delivered |-> 0, lines |-> 0]

\* The generator object sendChatRequest returns: no code of it has run yet.
NewStream(vendor) ==
    [ vendor |-> vendor,
      pc |-> "created",
      \* the response: which frames make its body, and how fetch resolved
      response |-> "none", statusText |-> "", ix |-> <<>>, tail |-> 0,
      \* locals of the generator
      subscribed |-> FALSE, aborted |-> FALSE,
      pos |-> 0, pending |-> 0, buffer |-> <<>>, lines |-> <<>>,
      \* the lines the running loop has passed to the vendor's extraction
      handed |-> <<>>,
      \* what the consumer has seen
      delivered |-> <<>>, outcome |-> "none", error |-> NoError,
      \* history
      fetches |-> 0, binds |-> 0, disposes |-> 0, aborts |-> 0,
      eof |-> FALSE, readAny |-> FALSE, splitChar |-> FALSE, lateRead |-> FALSE,
      signal |-> NoSignal ]

\* The bytes of the response body the server sends on the stream's connection.
Body(s) == BodyOf(s.vendor, s.ix, s.tail)

Init ==
    /\ \E v \in Vendors : stream = NewStream(v)
    /\ token = [cancelled |-> FALSE, when |-> "never"]
    /\ progress = <<>>
    /\ call = NoCall

----------------------------------------------------------------------------
(* The generator's code, as functions of the stream record.                *)

\* As Abort, with the listener called and the transport left alone.
AbortIgnored(s) == [s EXCEPT !.aborts = @ + 1]

\* abortController.abort(), the body of the cancellation listener
Abort(s) == [s EXCEPT !.aborted = TRUE, !.aborts = @ + 1]

\* As Start, with the request issued and no listener bound to the token.
StartUnbound(s) == [s EXCEPT !.pc = "fetching", !.fetches = @ + 1]

\* The first next(): bind the token to a new AbortController and issue the POST.
Start(s) ==
    [s EXCEPT !.pc = "fetching", !.subscribed = TRUE, !.binds = @ + 1, !.fetches = @ + 1]

\* As Dispose, with the listener left bound to the token.
DisposeKept(s) == [s EXCEPT !.disposes = @ + 1]

\* finally { disposable.dispose(); }
Dispose(s) == [s EXCEPT !.subscribed = FALSE, !.disposes = @ + 1]

\* The generator's frame is gone once it has returned or thrown: its reader, its
\* decoder and its buffer with it.
Finished(s) ==
    [s EXCEPT !.pos = 0, !.pending = 0, !.buffer = <<>>, !.lines = <<>>, !.handed = <<>>]

\* The generator returns: the sequence ends normally.
Return(s) == [Finished(s) EXCEPT !.pc = "done", !.outcome = "done"]

\* As Catch, with every error rethrown, an AbortError too.
CatchRethrown(s, error) ==
    [Finished(s) EXCEPT !.pc = "error", !.outcome = "error", !.error = error]

\* catch (error) { if (error.name === 'AbortError') return; throw error; }
Catch(s, error) ==
    IF error.name = "AbortError" THEN Return(s)
    ELSE [Finished(s) EXCEPT !.pc = "error", !.outcome = "error", !.error = error]

\* An error thrown inside the inner try: the finally block, then the catch.
Throw(s, error) == Catch(Dispose(s), error)

RECURSIVE RunLines(_)
RECURSIVE RunLine(_, _)

\* As RunLine, with a yielded delta put before the ones delivered earlier.
RunLineReordered(rest, r) ==
    IF r.thrown # "" THEN Throw(rest, LineError(r.thrown))
    ELSE IF r.out = <<>> THEN RunLines(rest)
    ELSE [rest EXCEPT !.pc = "yielded", !.delivered = <<TextPart(r.out[1])>> \o @]

\* The loop body for one line, r being what the line yields or throws.
RunLine(rest, r) ==
    IF r.thrown # "" THEN Throw(rest, LineError(r.thrown))
    ELSE IF r.out = <<>> THEN RunLines(rest)
    ELSE [rest EXCEPT !.pc = "yielded", !.delivered = Append(@, TextPart(r.out[1]))]

\* for (const line of lines): up to the next yield, else back to reader.read().
RunLines(s) ==
    IF s.lines = <<>> THEN [s EXCEPT !.pc = "reading"]
    ELSE RunLine([s EXCEPT !.lines = Tail(@), !.handed = Append(@, Head(s.lines))],
                 ExtractLine(s.vendor, Head(s.lines)))

\* As AppendText, with the decoded text put in place of the buffer: what
\* the last chunk left of a line is lost.
AppendTextReplaced(s, dec) == [s EXCEPT !.pending = dec.pending, !.buffer = dec.text]

\* buffer += decoder.decode(value, { stream: true });
AppendText(s, dec) == [s EXCEPT !.pending = dec.pending, !.buffer = @ \o dec.text]

\* As PopLast, with the unterminated last segment dropped instead of kept for
\* the next chunk.
PopLastDropped(s, parts) ==
    [s EXCEPT !.lines = SubSeq(parts, 1, Len(parts) - 1), !.buffer = <<>>]

\* lines = the segments but the last; buffer = lines.pop() || '';
PopLast(s, parts) ==
    [s EXCEPT !.lines = SubSeq(parts, 1, Len(parts) - 1), !.buffer = parts[Len(parts)]]

\* const lines = buffer.split('\n'); buffer = lines.pop() || '';
SplitLines(s) == PopLast(s, Split(s.buffer))

\* As TakeChunk, with the text kept in the buffer and no line split off while
\* the data has not ended.
TakeChunkHeld(s, value) ==
    [AppendText(s, DecodeStream(s.pending, value)) EXCEPT !.lines = <<>>]

\* One chunk: decode it onto the buffer, then split off the complete lines.
TakeChunk(s, value) == SplitLines(AppendText(s, DecodeStream(s.pending, value)))

\* As OnRead, with what is left in the buffer at the end of the data processed
\* as a last line.
OnReadFlushed(s, done, value) ==
    IF ~done THEN RunLines(TakeChunk(s, value))
    ELSE IF s.buffer = <<>> THEN Return(Dispose(s))
    ELSE RunLines([s EXCEPT !.lines = <<s.buffer>>, !.buffer = <<>>])

\* As OnRead, with no break at the end of the data: the loop reads again.
OnReadNoBreak(s, done, value) ==
    IF done THEN [s EXCEPT !.pc = "reading"] ELSE RunLines(TakeChunk(s, value))

\* const { done, value } = await reader.read(); if (done) { break; } ...
OnRead(s, done, value) ==
    IF done THEN Return(Dispose(s)) ELSE RunLines(TakeChunk(s, value))

\* As OnResponse, with no check of the status and a missing body read as an
\* empty one.
OnResponseUnchecked(s, ok, statusText, hasBody) ==
    IF hasBody THEN [s EXCEPT !.pc = "reading", !.buffer = <<>>] ELSE Return(Dispose(s))

\* After await fetch(...): the status check, the reader, the empty buffer.
OnResponse(s, ok, statusText, hasBody) ==
    IF ~ok THEN Throw(s, ApiError(s.vendor, statusText))
    ELSE IF ~hasBody THEN Throw(s, NoBodyError)
    ELSE [s EXCEPT !.pc = "reading", !.buffer = <<>>]

\* As ReturnAtYield, with no finally block.
ReturnAtYieldLeaked(s) == Return(s)

\* iterator.return() at a yield: only the finally block runs.
ReturnAtYield(s) == Return(Dispose(s))

----------------------------------------------------------------------------
(* Actions.                                                                *)

Terminal == {"done", "error"}

\* The cancellation listener is bound and has not run.
Listening(s) == s.subscribed /\ s.aborts = 0

\* The consumer pulls the first item.
PullFirst ==
    /\ stream.pc = "created"
    /\ stream' = Start(stream)
    /\ UNCHANGED <<token, progress, call>>

\* if (chunk.type === 'text') { progress([{ kind: 'markdownContent', content: ... }]); }
OnChunk(calls, chunk) ==
    IF chunk.type = "text" THEN Append(calls, chunk.value) ELSE calls

\* progress([{ kind: 'markdownContent', content: `Error: ${error.message}` }])
ErrorNotice(error) == [t |-> "notice", v |-> <<"Error: ">> \o error.message]

\* As Caught, with the notice given for every stream that has ended, normally
\* or not.
CaughtAlways(calls, s) ==
    IF s.pc \in {"done", "error"} THEN Append(calls, ErrorNotice(s.error)) ELSE calls

\* catch (error) of the agent, s being the stream after the step: an error the
\* stream threw into the agent's await is reported with one progress call.
Caught(calls, s) ==
    IF s.pc = "error" THEN Append(calls, ErrorNotice(s.error)) ELSE calls

\* The agent's loop body for the item it holds, then its next pull.
PullNext ==
    /\ stream.pc = "yielded"
    /\ stream' = RunLines(stream)
    /\ progress' = Caught(OnChunk(progress, stream.delivered[Len(stream.delivered)]),
                          stream')
    /\ UNCHANGED <<token, call>>

\* The consumer leaves its loop at an item: iterator.return().
Abandon ==
    /\ stream.pc = "yielded"
    /\ stream' = ReturnAtYield(stream)
    /\ UNCHANGED <<token, progress, call>>

\* fetch resolves with an ok response that has a body.
FetchOk ==
    /\ stream.pc = "fetching" /\ ~stream.aborted
    /\ \E ix \in LineChoices(stream.vendor), tail \in TailChoices :
          stream' = OnResponse([stream EXCEPT !.response = "ok", !.statusText = "OK",
                                              !.ix = ix, !.tail = tail],
                               TRUE, "OK", TRUE)
    /\ progress' = Caught(progress, stream')
    /\ UNCHANGED <<token, call>>

\* fetch resolves with a response whose status is not a success.
FetchNotOk ==
    /\ stream.pc = "fetching" /\ ~stream.aborted
    /\ \E st \in StatusTexts, hasBody \in BOOLEAN :
          stream' = OnResponse([stream EXCEPT !.response = "notok", !.statusText = st],
                               FALSE, st, hasBody)
    /\ progress' = Caught(progress, stream')
    /\ UNCHANGED <<token, call>>

\* fetch resolves with an ok response whose body is null.
FetchNoBody ==
    /\ stream.pc = "fetching" /\ ~stream.aborted
    /\ stream' = OnResponse([stream EXCEPT !.response = "nobody", !.statusText = "OK"],
                            TRUE, "OK", FALSE)
    /\ progress' = Caught(progress, stream')
    /\ UNCHANGED <<token, call>>

\* fetch rejects: the connection failed.
FetchFail ==
    /\ stream.pc = "fetching" /\ ~stream.aborted
    /\ stream' = Throw(stream, NetworkError)
    /\ progress' = Caught(progress, stream')
    /\ UNCHANGED <<token, call>>

\* fetch rejects: its signal is aborted.
FetchAborted ==
    /\ stream.pc = "fetching" /\ stream.aborted
    /\ stream' = Throw(stream, AbortError)
    /\ progress' = Caught(progress, stream')
    /\ UNCHANGED <<token, call>>

\* reader.read() resolves with the next chunk of the body.
ReadChunk ==
    /\ stream.pc = "reading" /\ ~stream.aborted
    /\ LET body == Body(stream) IN
       \E p \in CutPoints(body) :
          /\ p > stream.pos
          /\ stream' = OnRead([stream EXCEPT !.pos = p, !.readAny = TRUE,
                                             !.splitChar = @ \/ body[p] = "xC3",
                                             !.lateRead = @ \/ stream.signal.pc # "none"],
                              FALSE, SubSeq(body, stream.pos + 1, p))
    /\ progress' = Caught(progress, stream')
    /\ UNCHANGED <<token, call>>

\* reader.read() resolves with done: the body has been read to its end.
ReadDone ==
    /\ stream.pc = "reading" /\ ~stream.aborted
    /\ stream.pos = Len(Body(stream))
    /\ stream' = OnRead([stream EXCEPT !.eof = TRUE], TRUE, <<>>)
    /\ progress' = Caught(progress, stream')
    /\ UNCHANGED <<token, call>>

\* reader.read() rejects: the connection failed.
ReadFail ==
    /\ stream.pc = "reading" /\ ~stream.aborted
    /\ stream' = Throw(stream, NetworkError)
    /\ progress' = Caught(progress, stream')
    /\ UNCHANGED <<token, call>>

\* reader.read() rejects: the signal is aborted.
ReadAborted ==
    /\ stream.pc = "reading" /\ stream.aborted
    /\ stream' = Throw(stream, AbortError)
    /\ progress' = Caught(progress, stream')
    /\ UNCHANGED <<token, call>>

\* History: what the stream was doing when its cancellation listener ran.
Signalled(s, before) ==
    [s EXCEPT !.signal = [pc |-> before.pc, delivered |-> Len(before.delivered),
                          lines |-> Len(before.lines)]]

\* token.cancel(): a listener that is bound runs at once.
Cancel ==
    /\ ~token.cancelled
    /\ token' = [cancelled |-> TRUE, when |-> stream.pc]
    /\ stream' = IF stream.subscribed THEN Signalled(Abort(stream), stream) ELSE stream
    /\ UNCHANGED <<progress, call>>

\* A listener bound to a token that is already cancelled runs from a timer, unless
\* it is disposed first.
CancelLater ==
    /\ token.cancelled /\ Listening(stream)
    /\ stream' = Signalled(Abort(stream), stream)
    /\ UNCHANGED <<token, progress, call>>

Next ==
    \/ PullFirst \/ PullNext \/ Abandon
    \/ FetchOk \/ FetchNotOk \/ FetchNoBody \/ FetchFail \/ FetchAborted
    \/ ReadChunk \/ ReadDone \/ ReadFail \/ ReadAborted
    \/ Cancel \/ CancelLater

Spec == Init /\ [][Next]_vars

----------------------------------------------------------------------------
(* Reference results the properties compare the stream with.               *)

RECURSIVE Deltas(_, _, _)
\* What the lines ls[i], ls[i + 1], ... yield, in order.
Deltas(vendor, ls, i) ==
    IF i > Len(ls) THEN <<>>
    ELSE ExtractLine(vendor, ls[i]).out \o Deltas(vendor, ls, i + 1)

\* The values of a sequence of text parts.
Values(parts) == [i \in 1..Len(parts) |-> parts[i].value]

\* The deltas of `bytes` handed to the decoder as one chunk.
SingleChunk(vendor, bytes) ==
    Deltas(vendor, TakeChunk(NewStream(vendor), bytes).lines, 1)

\* The text of the k-th frame of every vendor: "a", U+00E9, or none.
FrameText(k) ==
    CASE k = 1 -> <<JString(<<"a">>)>>
      [] k = 2 -> <<JString(<<"U+E9">>)>>
      [] OTHER -> <<>>

RECURSIVE FrameTexts(_, _)
\* The texts of the frames ix[i], ix[i + 1], ... in the order of the body.
FrameTexts(ix, i) ==
    IF i > Len(ix) THEN <<>> ELSE FrameText(ix[i]) \o FrameTexts(ix, i + 1)

IsPrefix(a, b) == Len(a) <= Len(b) /\ a = SubSeq(b, 1, Len(a))

\* The progress calls made for deltas: all but the agent's error notice.
DeltaCalls(calls) == SelectSeq(calls, LAMBDA c : c.t # "notice")

----------------------------------------------------------------------------
\* C1: chunk-boundary invariance.  However the bytes read so far were cut into
\* chunks, once their complete lines are processed the stream has delivered
\* exactly the deltas of the same bytes taken as a single chunk, and a body read
\* to its end has delivered the deltas of the whole body taken as one chunk.
ChunkBoundaryInvariance ==
    /\ stream.pc = "reading" =>
          Values(stream.delivered)
              = SingleChunk(stream.vendor, SubSeq(Body(stream), 1, stream.pos))
    /\ stream.eof =>
          Values(stream.delivered) = SingleChunk(stream.vendor, Body(stream))

\* A body read to its end in chunks one of which ended inside the two-byte
\* character, with both of its deltas delivered.
ChunkBoundaryWitness ==
    /\ stream.eof /\ stream.splitChar
    /\ Len(stream.delivered) = 2

----------------------------------------------------------------------------
\* C2: a partial last line is discarded at the end of the data.  A body that ends
\* in an unterminated delta frame, read to its end, has delivered the texts of
\* its newline-terminated frames and nothing for the unterminated one.
PartialLineDiscarded ==
    (stream.eof /\ stream.tail # 0) =>
        /\ stream.pc = "done"
        /\ Values(stream.delivered) = FrameTexts(stream.ix, 1)

\* The end of the data was reached with an unterminated delta frame after a
\* delivered one.
PartialLineWitness ==
    /\ stream.eof /\ stream.tail \in DeltaFrames
    /\ stream.pc = "done" /\ Len(stream.delivered) = 1

----------------------------------------------------------------------------
\* The frames of the catalogue that are noise: every frame but the delta frames.
Noise(vendor) == (1..Len(Frames(vendor))) \ DeltaFrames

RECURSIVE Without(_, _, _)
\* ix[i], ix[i + 1], ... with the frames in `drop` removed.
Without(ix, drop, i) ==
    IF i > Len(ix) THEN <<>>
    ELSE (IF ix[i] \in drop THEN <<>> ELSE <<ix[i]>>) \o Without(ix, drop, i + 1)

\* C3: noise insensitivity.  A body with noise lines (a line without the data
\* prefix, a blank line, a body that is not JSON, a control event) delivers, as
\* far as it has been read, what the body without those lines delivers; read to
\* its end it has delivered all of it; and no line makes the stream end in an
\* error of the loop body.
NoiseInsensitivity ==
    LET clean == Without(stream.ix, Noise(stream.vendor), 1) IN
    /\ IsPrefix(Values(stream.delivered), FrameTexts(clean, 1))
    /\ stream.eof => Values(stream.delivered) = FrameTexts(clean, 1)
    /\ stream.outcome = "error" => stream.error \notin {LineError(n) : n \in {"SyntaxError", "TypeError"}}

\* A body of a noise line followed by a delta frame, read to its end: the delta
\* after the noise line was delivered.
NoiseWitness ==
    /\ stream.eof /\ Len(stream.ix) = 2
    /\ stream.ix[1] \in Noise(stream.vendor) /\ stream.ix[2] \in DeltaFrames
    /\ Len(stream.delivered) = 1 /\ stream.outcome = "done"

----------------------------------------------------------------------------
\* C4: per-stream ordering.  What the stream has delivered is always the texts of
\* the leading delta frames of the body, in the order of the body, each once and
\* none skipped; the agent has made one progress call per delivered delta, in
\* the same order, lagging by at most the item it holds.
PerStreamOrdering ==
    /\ IsPrefix(Values(stream.delivered), FrameTexts(stream.ix, 1))
    /\ \A i \in 1..Len(stream.delivered) : stream.delivered[i].type = "text"
    /\ IsPrefix(DeltaCalls(progress), Values(stream.delivered))
    /\ Len(DeltaCalls(progress)) >= Len(stream.delivered) - 1
    /\ stream.pc = "reading" => progress = Values(stream.delivered)

\* Both delta frames of a body, the second before the first, delivered and
\* forwarded in that order.
OrderingWitness ==
    /\ stream.ix = <<2, 1>>
    /\ progress = <<JString(<<"U+E9">>), JString(<<"a">>)>>

----------------------------------------------------------------------------
\* C5: cancellation is not a failure.  When the cancellation listener runs while
\* the stream waits for the response headers or for the next chunk, the transport
\* is aborted, the stream stays at that wait until it ends normally, it delivers
\* nothing more, and it never ends in an error.
CancellationNotAFailure ==
    stream.signal.pc \in {"fetching", "reading"} =>
        /\ stream.aborted /\ stream.aborts = 1
        /\ stream.pc \in {stream.signal.pc, "done"}
        /\ stream.pc = "done" => stream.outcome = "done"
        /\ stream.outcome # "error" /\ stream.error = NoError
        /\ Len(stream.delivered) = stream.signal.delivered

\* Cancelled while waiting for the next chunk, after a delta: ended normally.
CancellationWitness ==
    /\ stream.signal.pc = "reading" /\ stream.signal.delivered = 1
    /\ stream.pc = "done" /\ stream.outcome = "done" /\ ~stream.eof

----------------------------------------------------------------------------
\* C6: once the cancellation listener of a stream has run, no step of the stream
\* delivers a further delta.
NoDeltaAfterCancel ==
    [][stream.signal.pc # "none" => stream'.delivered = stream.delivered]_vars

----------------------------------------------------------------------------
\* C7: cancelling mid-stream stops delivery within one read cycle.  After the
\* cancellation listener has run no chunk is read, the deltas delivered since
\* are at most one per line of the chunk that was being processed, and the
\* stream does not end in an error.
StopsWithinOneReadCycle ==
    stream.signal.pc # "none" =>
        /\ ~stream.lateRead
        /\ Len(stream.delivered) <= stream.signal.delivered + stream.signal.lines
        /\ stream.outcome # "error" /\ stream.error = NoError

\* Cancelled while the consumer held a delta with a line of the same chunk still
\* to process: that line's delta was delivered, then the stream ended normally
\* without reading the body to its end.
OneReadCycleWitness ==
    /\ stream.signal.pc = "yielded" /\ stream.signal.lines = 1
    /\ Len(stream.delivered) = stream.signal.delivered + 1
    /\ stream.pc = "done" /\ stream.outcome = "done" /\ ~stream.eof

----------------------------------------------------------------------------
\* C8: a cancellation after the stream has finished is a no-op.  No step taken
\* when the stream has returned or thrown, the token's cancellation among them,
\* calls abort, delivers anything, or changes the stream's outcome.
LateCancelIsNoOp ==
    [][stream.pc \in Terminal =>
          /\ stream' = stream
          /\ progress' = progress]_vars

\* The token was cancelled after a stream that delivered a delta had read its
\* body to the end: abort was never called.
LateCancelWitness ==
    /\ token.cancelled /\ token.when = "done"
    /\ stream.eof /\ stream.outcome = "done" /\ stream.delivered # <<>>
    /\ stream.aborts = 0

----------------------------------------------------------------------------
\* C9: no leaked cancellation subscription.  The stream binds the token at most
\* once and releases the binding at most once; it holds the binding from its
\* start until it returns or throws, and in no terminal state after.
SubscriptionReleased ==
    /\ stream.binds <= 1 /\ stream.disposes <= stream.binds
    /\ stream.subscribed <=> (stream.binds = 1 /\ stream.disposes = 0)
    /\ stream.pc \in {"fetching", "reading", "yielded"} => stream.subscribed
    /\ stream.pc \in Terminal =>
          /\ ~stream.subscribed
          /\ stream.binds = 1 /\ stream.disposes = 1

\* The consumer abandoned the stream at a delta, with no cancellation: the
\* binding was released.
SubscriptionWitness ==
    /\ stream.pc = "done" /\ ~stream.eof /\ stream.aborts = 0
    /\ stream.delivered # <<>> /\ stream.disposes = 1

----------------------------------------------------------------------------
\* C10: transport failure precedes streaming.  A response whose status is not a
\* success makes the stream throw an error carrying the status text, and a
\* response without a body makes it throw, before any chunk is read and with no
\* delta delivered; neither ends as a successful stream.
TransportFailureFirst ==
    /\ stream.response = "notok" =>
          stream.error = ApiError(stream.vendor, stream.statusText)
    /\ stream.response = "nobody" => stream.error = NoBodyError
    /\ stream.response \in {"notok", "nobody"} =>
          /\ stream.pc = "error" /\ stream.outcome = "error"
          /\ ~stream.readAny /\ stream.delivered = <<>>
          /\ progress = <<ErrorNotice(stream.error)>>

\* A response with status text Unauthorized: the stream threw the vendor's error
\* with that text.
TransportFailureWitness ==
    /\ stream.response = "notok" /\ stream.statusText = "Unauthorized"
    /\ stream.outcome = "error"
    /\ stream.error.message = <<ApiName(stream.vendor), " API error: ", "Unauthorized">>

----------------------------------------------------------------------------
\* The error notices among the agent's progress calls.
Notices(calls) == SelectSeq(calls, LAMBDA c : c.t = "notice")

\* C12: exactly one outcome per request.  A stream has ended exactly when it has
\* an outcome, which is either a normal end (at the end of the data, on
\* cancellation, or on the consumer's return) with no error and no error notice,
\* or an error with exactly one notice of it as the agent's last progress call;
\* and no step after the end delivers a delta, makes a progress call, or changes
\* the outcome or the error.
ExactlyOneOutcome ==
    /\ [](/\ stream.outcome \in {"none", "done", "error"}
          /\ stream.pc \in Terminal <=> stream.outcome # "none"
          /\ stream.outcome # "none" => stream.pc = stream.outcome
          /\ stream.outcome # "error" =>
                stream.error = NoError /\ Notices(progress) = <<>>
          /\ stream.outcome = "error" =>
                /\ stream.error # NoError
                /\ Notices(progress) = <<ErrorNotice(stream.error)>>
                /\ progress[Len(progress)] = ErrorNotice(stream.error))
    /\ [][stream.outcome # "none" =>
             /\ stream'.outcome = stream.outcome /\ stream'.error = stream.error
             /\ stream'.delivered = stream.delivered
             /\ progress' = progress]_vars

\* A stream that threw a transport error after a delta was forwarded, and whose
\* token was cancelled after that.
OneOutcomeWitness ==
    /\ stream.outcome = "error" /\ stream.error = NetworkError
    /\ Len(progress) = 2 /\ Len(stream.delivered) = 1
    /\ token.cancelled /\ token.when = "error"

----------------------------------------------------------------------------
(* sendChatRequest of the three providers: the credential, the conversion  *)
(* of the messages to the vendor's wire format, the stream it returns.     *)

\* a || b
Or(a, b) == IF Truthy(a) THEN a ELSE b

\* a && b
And(a, b) == IF Truthy(a) THEN b ELSE a

\* The key literal that ends the expression of the OpenAI key: a non-empty string.
HardcodedKey == JString(<<"l", "i", "t", "e", "r", "a", "l">>)

\* What the environment variable or the setting of a key may hold.
KeyValues == {Undefined, JString(<<>>), JString(<<"k">>)}

\* (typeof process !== 'undefined' && process.env?.['OPENAI_API_KEY'])
\*     || getValue('languageModels.openai.apiKey') || '<literal>'
OpenAIApiKey(c) ==
    Or(Or(And(JBool(c.hasProcess), c.envKey), c.configKey), HardcodedKey)

\* getValue('languageModels.anthropic.apiKey')
AnthropicApiKey(c) == c.configKey

KeyError(vendor) ==
    [name |-> "Error", message |-> <<ApiName(vendor), " API key not configured">>]

\* ChatMessageRole
Roles == {"System", "User", "Assistant"}

\* A content part: text with a value, or a part of another type.
TextA == [type |-> "text", value |-> <<"a">>]
TextB == [type |-> "text", value |-> <<"b", "c">>]
ImagePart == [type |-> "image_url", value |-> <<"u">>]

\* The contents a message may have.
Contents ==
    {<<>>, <<TextA>>, <<ImagePart>>, <<TextA, TextB>>, <<TextB, TextA>>,
     <<TextA, ImagePart, TextB>>}

\* Messages of a request: at most MaxMessages.
MaxMessages == 2

Messages == [role : Roles, content : Contents]

MessageLists == UNION {[1..n -> Messages] : n \in 0..MaxMessages}

RECURSIVE JoinText(_, _)
\* content.map(part => part.type === 'text' ? part.value : '').join(''), from part i
JoinText(parts, i) ==
    IF i > Len(parts) THEN <<>>
    ELSE (IF parts[i].type = "text" THEN parts[i].value ELSE <<>>)
             \o JoinText(parts, i + 1)

\* As WireRole, with the system role not told from the assistant's.
WireRoleNoSystem(role) == IF role = "User" THEN "user" ELSE "assistant"

\* role === System ? 'system' : role === User ? 'user' : 'assistant'
WireRole(role) ==
    IF role = "System" THEN "system" ELSE IF role = "User" THEN "user" ELSE "assistant"

\* messages.map(msg => ({ role: ..., content: ... })) of OpenAI and Ollama
WireMessages(messages) ==
    [i \in 1..Len(messages) |->
        [role |-> WireRole(messages[i].role),
         content |-> JoinText(messages[i].content, 1)]]

\* role === User ? 'user' : 'assistant'
AnthropicRole(role) == IF role = "User" THEN "user" ELSE "assistant"

\* As AnthropicMessages, with no message filtered out.
AnthropicMessagesUnfiltered(messages) ==
    [i \in 1..Len(messages) |->
        [role |-> AnthropicRole(messages[i].role),
         content |-> JoinText(messages[i].content, 1)]]

\* messages.filter(msg => msg.role !== System).map(msg => ({ ... }))
AnthropicMessages(messages) ==
    LET kept == SelectSeq(messages, LAMBDA m : m.role # "System") IN
    [i \in 1..Len(kept) |->
        [role |-> AnthropicRole(kept[i].role),
         content |-> JoinText(kept[i].content, 1)]]

\* messages.find(msg => msg.role === System): a one-element sequence, or none
SystemMessage(messages) ==
    LET found == SelectSeq(messages, LAMBDA m : m.role = "System") IN
    IF found = <<>> THEN <<>> ELSE <<found[1]>>

\* The JSON body of the Anthropic request: body.system is set only for a system
\* message.
AnthropicBody(messages, systemMessage) ==
    IF systemMessage = <<>>
    THEN [messages |-> messages, max_tokens |-> 8192, stream |-> TRUE]
    ELSE [messages |-> messages, max_tokens |-> 8192, stream |-> TRUE,
          system |-> JoinText(systemMessage[1].content, 1)]

\* The JSON body of the OpenAI and the Ollama request.
WireBody(messages) == [messages |-> messages, stream |-> TRUE]

\* sendChatRequest throws.
Thrown(c, error) == [c EXCEPT !.state = "thrown", !.error = error]

\* sendChatRequest returns a stream that will send `body` with `apiKey`.
Returned(c, apiKey, body) ==
    [c EXCEPT !.state = "returned", !.apiKey = apiKey, !.body = body]

\* OpenAILanguageModelProvider.sendChatRequest
OpenAISend(c, apiKey) ==
    IF ~Truthy(apiKey) THEN Thrown(c, KeyError("openai"))
    ELSE Returned(c, apiKey, WireBody(WireMessages(c.messages)))

\* AnthropicLanguageModelProvider.sendChatRequest, with the body its stream builds
AnthropicSend(c, apiKey) ==
    IF ~Truthy(apiKey) THEN Thrown(c, KeyError("anthropic"))
    ELSE Returned(c, apiKey,
                  AnthropicBody(AnthropicMessages(c.messages), SystemMessage(c.messages)))

\* OllamaLanguageModelProvider.sendChatRequest: no key
OllamaSend(c) == Returned(c, Undefined, WireBody(WireMessages(c.messages)))

Send(c) ==
    CASE c.vendor = "openai" -> OpenAISend(c, OpenAIApiKey(c))
      [] c.vendor = "anthropic" -> AnthropicSend(c, AnthropicApiKey(c))
      [] c.vendor = "ollama" -> OllamaSend(c)

\* No stream exists: sendChatRequest has not returned one.
NoStream == [NewStream("openai") EXCEPT !.vendor = "none", !.pc = "absent"]

\* A call of sendChatRequest that has not run.
NewSend(vendor, hasProcess, envKey, configKey, messages) ==
    [op |-> "sendChatRequest", vendor |-> vendor, hasProcess |-> hasProcess,
     envKey |-> envKey, configKey |-> configKey, messages |-> messages,
     state |-> "pending", error |-> NoError, apiKey |-> Undefined, body |-> <<>>]

\* The settings and the environment a vendor reads: only OpenAI reads the
\* environment, Ollama reads no key.
InitSend ==
    /\ \E v \in Vendors, ms \in MessageLists :
       \E hasProcess \in (IF v = "openai" THEN BOOLEAN ELSE {FALSE}),
          envKey \in (IF v = "openai" THEN KeyValues ELSE {Undefined}),
          configKey \in (IF v = "ollama" THEN {Undefined} ELSE KeyValues) :
             call = NewSend(v, hasProcess, envKey, configKey, ms)
    /\ stream = NoStream
    /\ token = [cancelled |-> FALSE, when |-> "never"]
    /\ progress = <<>>

\* The provider's sendChatRequest runs: it throws, or returns its stream.
SendChatRequest ==
    /\ call.op = "sendChatRequest" /\ call.state = "pending"
    /\ call' = Send(call)
    /\ stream' = IF call'.state = "returned" THEN NewStream(call.vendor) ELSE stream
    /\ UNCHANGED <<token, progress>>

\* The request as far as its HTTP request: the call, then the consumer's first pull.
NextSend == SendChatRequest \/ PullFirst

SpecSend == InitSend /\ [][NextSend]_vars

----------------------------------------------------------------------------
\* A credential is supplied when the setting holds a non-empty key or, for
\* OpenAI where a process environment exists, the environment variable does.
Supplied(c) ==
    \/ Truthy(c.configKey)
    \/ c.vendor = "openai" /\ c.hasProcess /\ Truthy(c.envKey)

\* C11: a missing credential fails before the network.  For OpenAI and Anthropic
\* a call with no key supplied by the setting or the environment never returns a
\* stream and never issues an HTTP request; once run it has thrown the
\* configuration error.
MissingCredentialFails ==
    (call.op = "sendChatRequest" /\ call.vendor \in {"openai", "anthropic"}
        /\ ~Supplied(call)) =>
        /\ call.state \in {"pending", "thrown"}
        /\ call.state = "thrown" => call.error = KeyError(call.vendor)
        /\ stream = NoStream /\ stream.fetches = 0

----------------------------------------------------------------------------
\* The text of each content of the catalogue: its text parts' values in order.
ContentText(parts) ==
    CASE parts = <<>> -> <<>>
      [] parts = <<TextA>> -> <<"a">>
      [] parts = <<ImagePart>> -> <<>>
      [] parts = <<TextA, TextB>> -> <<"a", "b", "c">>
      [] parts = <<TextB, TextA>> -> <<"b", "c", "a">>
      [] parts = <<TextA, ImagePart, TextB>> -> <<"a", "b", "c">>

\* The positions of the messages with a role in `roles`, as a set.
Positions(messages, roles) == {i \in 1..Len(messages) : messages[i].role \in roles}

\* The k-th least element of a set of positions.
Nth(positions, k) ==
    CHOOSE i \in positions : Cardinality({j \in positions : j < i}) = k - 1

\* A call of the vendor's sendChatRequest has returned.
Sent(vendors) ==
    call.op = "sendChatRequest" /\ call.vendor \in vendors /\ call.state = "returned"

\* C18: Anthropic request conversion.  The messages of the request are the input
\* messages that are not System messages, in their order, each with the role
\* user or assistant and its text; the request has a system field exactly when
\* the input has a System message, holding the text of the first one, and no
\* System message's text appears among the messages.
AnthropicConversion ==
    Sent({"anthropic"}) =>
        LET others == Positions(call.messages, {"User", "Assistant"})
            systems == Positions(call.messages, {"System"})
            wire == call.body.messages
        IN /\ Len(wire) = Cardinality(others)
           /\ \A k \in 1..Len(wire) :
                 /\ wire[k].role
                       = (IF call.messages[Nth(others, k)].role = "User"
                          THEN "user" ELSE "assistant")
                 /\ wire[k].content = ContentText(call.messages[Nth(others, k)].content)
           /\ "system" \in DOMAIN call.body <=> systems # {}
           /\ systems # {} =>
                 call.body.system = ContentText(call.messages[Nth(systems, 1)].content)

\* A request converted from a user message followed by a System message with
\* text: one wire message, and the system field.
AnthropicConversionWitness ==
    /\ Sent({"anthropic"}) /\ Len(call.messages) = 2
    /\ call.messages[1].role = "User" /\ call.messages[2].role = "System"
    /\ Len(call.body.messages) = 1
    /\ "system" \in DOMAIN call.body /\ call.body.system = <<"a", "b", "c">>

----------------------------------------------------------------------------
\* C19: OpenAI and Ollama request conversion.  The wire messages are as many as
\* the input messages and in their order; each has the role system, user or
\* assistant of its input message and, as content, the values of that message's
\* text parts in order, the other parts adding nothing.
WireConversion ==
    Sent({"openai", "ollama"}) =>
        LET wire == call.body.messages IN
        /\ Len(wire) = Len(call.messages)
        /\ \A i \in 1..Len(wire) :
              /\ wire[i].role
                    = (CASE call.messages[i].role = "System" -> "system"
                         [] call.messages[i].role = "User" -> "user"
                         [] call.messages[i].role = "Assistant" -> "assistant")
              /\ wire[i].content = ContentText(call.messages[i].content)

\* An Ollama request of a System message and a user message with an image part
\* between two text parts.
WireConversionWitness ==
    /\ Sent({"ollama"}) /\ Len(call.messages) = 2
    /\ call.messages[1].role = "System"
    /\ call.messages[2] = [role |-> "User", content |-> <<TextA, ImagePart, TextB>>]
    /\ call.body.messages[2] = [role |-> "user", content |-> <<"a", "b", "c">>]

----------------------------------------------------------------------------
(* Lines for the extraction of one delta: JSON texts for the content       *)
(* field, each with the value it denotes, put into the vendors' frames.    *)

\* JSON texts of a content field and the values they denote.
JsonTexts ==
    { [text |-> <<"\"", "h", "i", "\"">>, value |-> JString(<<"h", "i">>)],
      [text |-> <<"\"", "\"">>, value |-> JString(<<>>)],
      [text |-> <<"5">>, value |-> JNumber(5)],
      [text |-> <<"0">>, value |-> JNumber(0)],
      [text |-> <<"t", "r", "u", "e">>, value |-> JBool(TRUE)],
      [text |-> <<"f", "a", "l", "s", "e">>, value |-> JBool(FALSE)],
      [text |-> <<"n", "u", "l", "l">>, value |-> JNull],
      [text |-> <<"{", "}">>, value |-> JObject(<<>>)],
      [text |-> <<"[", "]">>, value |-> JArray(<<>>)] }

\* A line to extract from: its text, whether it is a frame in the vendor's
\* framing (after the data prefix, or a non-blank line), the event type it
\* names ("" for none) and the value of its content field (Undefined for none).
Case(line, framed, type, content) ==
    [line |-> line, framed |-> framed, type |-> type, content |-> content]

\* {"choices":[{"delta":{"content":
OpenAIHead ==
    <<"{", "\"", "c", "h", "o", "i", "c", "e", "s", "\"", ":", "[", "{", "\"", "d", "e",
        "l", "t", "a", "\"", ":", "{", "\"", "c", "o", "n", "t", "e", "n", "t", "\"",
        ":">>

\* }}]}
OpenAITail ==
    <<"}", "}", "]", "}">>

\* An OpenAI chunk with the content j, with and without the data prefix.
OpenAIContentCases ==
    {Case(DataPrefix \o OpenAIHead \o j.text \o OpenAITail, TRUE, "", j.value) :
        j \in JsonTexts}
    \cup {Case(OpenAIHead \o j.text \o OpenAITail, FALSE, "", j.value) : j \in JsonTexts}

\* OpenAI lines without a content field, but for the last.
OpenAIOtherCases ==
    {
      \* data: [DONE]
      Case(<<"d", "a", "t", "a", ":", " ", "[", "D", "O", "N", "E", "]">>,
           TRUE, "", Undefined),
      \* data: {
      Case(<<"d", "a", "t", "a", ":", " ", "{">>,
           TRUE, "", Undefined),
      \* data: not-json
      Case(<<"d", "a", "t", "a", ":", " ", "n", "o", "t", "-", "j", "s", "o", "n">>,
           TRUE, "", Undefined),
      \* data: {}
      Case(<<"d", "a", "t", "a", ":", " ", "{", "}">>,
           TRUE, "", Undefined),
      \* data: null
      Case(<<"d", "a", "t", "a", ":", " ", "n", "u", "l", "l">>,
           TRUE, "", Undefined),
      \* data: {"choices":[]}
      Case(<<"d", "a", "t", "a", ":", " ", "{", "\"", "c", "h", "o", "i", "c", "e", "s", "\"", ":",
                "[", "]", "}">>,
           TRUE, "", Undefined),
      \* data: {"choices":[{"delta":{}}]}
      Case(<<"d", "a", "t", "a", ":", " ", "{", "\"", "c", "h", "o", "i", "c", "e", "s", "\"", ":",
                "[", "{", "\"", "d", "e", "l", "t", "a", "\"", ":", "{", "}", "}", "]",
                "}">>,
           TRUE, "", Undefined),
      \* data: {"choices":[{}]}
      Case(<<"d", "a", "t", "a", ":", " ", "{", "\"", "c", "h", "o", "i", "c", "e", "s", "\"", ":",
                "[", "{", "}", "]", "}">>,
           TRUE, "", Undefined),
      \* (empty line)
      Case(<<>>,
           FALSE, "", Undefined),
      \* : k
      Case(<<":", " ", "k">>,
           FALSE, "", Undefined),
      \* event: done
      Case(<<"e", "v", "e", "n", "t", ":", " ", "d", "o", "n", "e">>,
           FALSE, "", Undefined),
      \* data:{"choices":[{"delta":{"content":"hi"}}]}
      Case(<<"d", "a", "t", "a", ":", "{", "\"", "c", "h", "o", "i", "c", "e", "s", "\"", ":", "[",
                "{", "\"", "d", "e", "l", "t", "a", "\"", ":", "{", "\"", "c", "o", "n",
                "t", "e", "n", "t", "\"", ":", "\"", "h", "i", "\"", "}", "}", "]",
                "}">>,
           FALSE, "", JString(<<"h", "i">>))
    }

\* {"type":"
AnthropicHead ==
    <<"{", "\"", "t", "y", "p", "e", "\"", ":", "\"">>

\* ","delta":{"text":
AnthropicMid ==
    <<"\"", ",", "\"", "d", "e", "l", "t", "a", "\"", ":", "{", "\"", "t", "e", "x", "t",
        "\"", ":">>

\* }}
AnthropicTail ==
    <<"}", "}">>

\* The event types of the Anthropic stream, as characters and as names.
EventTypes ==
    { [text |-> <<"c", "o", "n", "t", "e", "n", "t", "_", "b", "l", "o", "c", "k", "_", "d", "e", "l",
                "t", "a">>,
       name |-> "content_block_delta"],
      [text |-> <<"c", "o", "n", "t", "e", "n", "t", "_", "b", "l", "o", "c", "k", "_", "s", "t", "a",
                "r", "t">>,
       name |-> "content_block_start"],
      [text |-> <<"c", "o", "n", "t", "e", "n", "t", "_", "b", "l", "o", "c", "k", "_", "s", "t", "o",
                "p">>,
       name |-> "content_block_stop"],
      [text |-> <<"m", "e", "s", "s", "a", "g", "e", "_", "s", "t", "a", "r", "t">>,
       name |-> "message_start"],
      [text |-> <<"m", "e", "s", "s", "a", "g", "e", "_", "s", "t", "o", "p">>,
       name |-> "message_stop"],
      [text |-> <<"p", "i", "n", "g">>,
       name |-> "ping"] }

\* An Anthropic event of type e with the text j, with and without the data prefix.
AnthropicEvent(e, j) == AnthropicHead \o e.text \o AnthropicMid \o j.text \o AnthropicTail

AnthropicContentCases ==
    {Case(DataPrefix \o AnthropicEvent(e, j), TRUE, e.name, j.value) :
        e \in EventTypes, j \in JsonTexts}
    \cup {Case(AnthropicEvent(e, j), FALSE, e.name, j.value) :
             e \in {x \in EventTypes : x.name = "content_block_delta"}, j \in JsonTexts}

\* Anthropic lines without a text field, but for the untyped event.
AnthropicOtherCases ==
    {
      \* data: {"type":"content_block_delta"}
      Case(<<"d", "a", "t", "a", ":", " ", "{", "\"", "t", "y", "p", "e", "\"", ":", "\"", "c",
                "o", "n", "t", "e", "n", "t", "_", "b", "l", "o", "c", "k", "_", "d",
                "e", "l", "t", "a", "\"", "}">>,
           TRUE, "content_block_delta", Undefined),
      \* data: {"type":"content_block_delta","delta":{}}
      Case(<<"d", "a", "t", "a", ":", " ", "{", "\"", "t", "y", "p", "e", "\"", ":", "\"", "c",
                "o", "n", "t", "e", "n", "t", "_", "b", "l", "o", "c", "k", "_", "d",
                "e", "l", "t", "a", "\"", ",", "\"", "d", "e", "l", "t", "a", "\"", ":",
                "{", "}", "}">>,
           TRUE, "content_block_delta", Undefined),
      \* data: {"type":"content_block_delta","delta":null}
      Case(<<"d", "a", "t", "a", ":", " ", "{", "\"", "t", "y", "p", "e", "\"", ":", "\"", "c",
                "o", "n", "t", "e", "n", "t", "_", "b", "l", "o", "c", "k", "_", "d",
                "e", "l", "t", "a", "\"", ",", "\"", "d", "e", "l", "t", "a", "\"", ":",
                "n", "u", "l", "l", "}">>,
           TRUE, "content_block_delta", Undefined),
      \* data: {"type":"ping"}
      Case(<<"d", "a", "t", "a", ":", " ", "{", "\"", "t", "y", "p", "e", "\"", ":", "\"", "p",
                "i", "n", "g", "\"", "}">>,
           TRUE, "ping", Undefined),
      \* data: {"type":"message_stop"}
      Case(<<"d", "a", "t", "a", ":", " ", "{", "\"", "t", "y", "p", "e", "\"", ":", "\"", "m",
                "e", "s", "s", "a", "g", "e", "_", "s", "t", "o", "p", "\"", "}">>,
           TRUE, "message_stop", Undefined),
      \* data: {"delta":{"text":"hi"}}
      Case(<<"d", "a", "t", "a", ":", " ", "{", "\"", "d", "e", "l", "t", "a", "\"", ":", "{",
                "\"", "t", "e", "x", "t", "\"", ":", "\"", "h", "i", "\"", "}", "}">>,
           TRUE, "", JString(<<"h", "i">>)),
      \* data: {
      Case(<<"d", "a", "t", "a", ":", " ", "{">>,
           TRUE, "", Undefined),
      \* data: not-json
      Case(<<"d", "a", "t", "a", ":", " ", "n", "o", "t", "-", "j", "s", "o", "n">>,
           TRUE, "", Undefined),
      \* data: null
      Case(<<"d", "a", "t", "a", ":", " ", "n", "u", "l", "l">>,
           TRUE, "", Undefined),
      \* (empty line)
      Case(<<>>,
           FALSE, "", Undefined),
      \* event: ping
      Case(<<"e", "v", "e", "n", "t", ":", " ", "p", "i", "n", "g">>,
           FALSE, "", Undefined)
    }

\* {"message":{"content":
OllamaHead ==
    <<"{", "\"", "m", "e", "s", "s", "a", "g", "e", "\"", ":", "{", "\"", "c", "o", "n",
        "t", "e", "n", "t", "\"", ":">>

\* }}
OllamaTail ==
    <<"}", "}">>

\* An Ollama line with the content j.
OllamaContentCases ==
    {Case(OllamaHead \o j.text \o OllamaTail, TRUE, "", j.value) : j \in JsonTexts}

\* Ollama lines without a content field; the last four are blank.
OllamaOtherCases ==
    {
      \* {"message":{}}
      Case(<<"{", "\"", "m", "e", "s", "s", "a", "g", "e", "\"", ":", "{", "}", "}">>,
           TRUE, "", Undefined),
      \* {"message":null}
      Case(<<"{", "\"", "m", "e", "s", "s", "a", "g", "e", "\"", ":", "n", "u", "l", "l", "}">>,
           TRUE, "", Undefined),
      \* {}
      Case(<<"{", "}">>,
           TRUE, "", Undefined),
      \* {"done":true}
      Case(<<"{", "\"", "d", "o", "n", "e", "\"", ":", "t", "r", "u", "e", "}">>,
           TRUE, "", Undefined),
      \* {
      Case(<<"{">>,
           TRUE, "", Undefined),
      \* not-json
      Case(<<"n", "o", "t", "-", "j", "s", "o", "n">>,
           TRUE, "", Undefined),
      \* null
      Case(<<"n", "u", "l", "l">>,
           TRUE, "", Undefined),
      \* ''
      Case(<<>>,
           FALSE, "", Undefined),
      \* ' '
      Case(<<" ">>,
           FALSE, "", Undefined),
      \* ' \t'
      Case(<<" ", "        ">>,
           FALSE, "", Undefined),
      \* '\r'
      Case(<<"\r">>,
           FALSE, "", Undefined)
    }

Cases(vendor) ==
    CASE vendor = "openai" -> OpenAIContentCases \cup OpenAIOtherCases
      [] vendor = "anthropic" -> AnthropicContentCases \cup AnthropicOtherCases
      [] vendor = "ollama" -> OllamaContentCases \cup OllamaOtherCases

\* The generator at its loop over the lines of a chunk whose only line is `line`.
AtLine(vendor, line) ==
    [Start(NewStream(vendor)) EXCEPT !.pc = "reading", !.response = "ok",
                                     !.statusText = "OK", !.readAny = TRUE,
                                     !.lines = <<line>>]

\* A line about to be processed.
NewLineCall(vendor, case) ==
    [op |-> "line", vendor |-> vendor, case |-> case, state |-> "pending"]

InitLine ==
    /\ \E v \in Vendors : \E case \in Cases(v) :
          /\ call = NewLineCall(v, case)
          /\ stream = AtLine(v, case.line)
    /\ token = [cancelled |-> FALSE, when |-> "never"]
    /\ progress = <<>>

\* The loop body runs for the line: up to its yield, or back to the read.
ProcessLine ==
    /\ call.op = "line" /\ call.state = "pending"
    /\ stream' = RunLines(stream)
    /\ call' = [call EXCEPT !.state = "done"]
    /\ UNCHANGED <<token, progress>>

\* The agent takes the delta the line yielded.
TakeDelta ==
    /\ call.op = "line" /\ call.state = "done"
    /\ PullNext

NextLine == ProcessLine \/ TakeDelta

SpecLine == InitLine /\ [][NextLine]_vars

----------------------------------------------------------------------------
\* A non-empty string.
IsText(v) == v.t = "string" /\ v.v # <<>>

\* The line of the call has been processed.
Processed(vendor) == call.op = "line" /\ call.vendor = vendor /\ call.state = "done"

\* C13: OpenAI delta extraction.  A data frame yields exactly one delta, with the
\* value of choices[0].delta.content, when that is a non-empty string; [DONE], a
\* body that is not JSON and a body without such content yield none; no line
\* makes the stream throw.
OpenAIExtraction ==
    Processed("openai") =>
        /\ stream.outcome # "error"
        /\ Values(stream.delivered)
              = IF call.case.framed /\ IsText(call.case.content)
                THEN <<call.case.content>> ELSE <<>>

----------------------------------------------------------------------------
\* C14: [DONE] ends an OpenAI stream.  What an OpenAI stream has delivered comes
\* from the frames before the first [DONE] frame of its body only.
IsDone(k) == OpenAIFrames[k] = DataPrefix \o DoneMarker

\* The frames of ix before its first [DONE] frame.
BeforeDone(ix) ==
    LET dones == {i \in 1..Len(ix) : IsDone(ix[i])} IN
    IF dones = {} THEN ix
    ELSE SubSeq(ix, 1, (CHOOSE i \in dones : \A j \in dones : i <= j) - 1)

DoneEndsStream ==
    stream.vendor = "openai" =>
        IsPrefix(Values(stream.delivered), FrameTexts(BeforeDone(stream.ix), 1))

----------------------------------------------------------------------------
\* C15: Anthropic delta extraction.  A line yields a delta only when it is a data
\* frame whose type is content_block_delta and whose delta.text is present, and
\* the delta's value is that text; such a frame with a non-empty string text
\* does yield it; a frame of another type or with malformed JSON yields
\* nothing; no line makes the stream throw.
AnthropicExtraction ==
    Processed("anthropic") =>
        /\ stream.outcome # "error"
        /\ Len(stream.delivered) <= 1
        /\ stream.delivered # <<>> =>
              /\ call.case.framed /\ call.case.type = "content_block_delta"
              /\ call.case.content # Undefined
              /\ Values(stream.delivered) = <<call.case.content>>
        /\ (call.case.framed /\ call.case.type = "content_block_delta"
               /\ IsText(call.case.content)) => stream.delivered # <<>>

\* A content_block_delta frame with the text "hi" has yielded it, and the agent
\* has forwarded it.
AnthropicExtractionWitness ==
    /\ Processed("anthropic") /\ call.case.type = "content_block_delta"
    /\ Values(stream.delivered) = <<JString(<<"h", "i">>)>>
    /\ progress = <<JString(<<"h", "i">>)>>

----------------------------------------------------------------------------
\* C16: Ollama delta extraction.  A non-blank line that is JSON with a non-empty
\* string message.content yields exactly one delta with that value; a blank
\* line, a line that is not JSON and a line without such content yield none; no
\* line makes the stream throw.
OllamaExtraction ==
    Processed("ollama") =>
        /\ stream.outcome # "error"
        /\ Values(stream.delivered)
              = IF call.case.framed /\ IsText(call.case.content)
                THEN <<call.case.content>> ELSE <<>>

----------------------------------------------------------------------------
\* C17: every item a decoder emits is a text delta whose value is a non-empty
\* string.
OnlyTextDeltas ==
    call.op = "line" =>
        \A i \in 1..Len(stream.delivered) :
            /\ stream.delivered[i].type = "text"
            /\ IsText(stream.delivered[i].value)

----------------------------------------------------------------------------
(* The agent's choice of a model, before it sends the request.             *)

\* Models the service may list: at most MaxModels.
MaxModels == 4

\* isDefault of a model's metadata: true, false, or not set.
DefaultFlags == {JBool(TRUE), JBool(FALSE), Undefined}

\* The identifier of the i-th listed model.
ModelId(i) == JString(<<"m", CHOOSE c \in Digits : DigitVal(c) = i>>)

\* What the service lists: for each model, in listing order, its identifier and
\* its metadata.
ModelLists ==
    UNION {{[i \in 1..n |-> [id |-> ModelId(i), metadata |-> [isDefault |-> flags[i]]]] :
               flags \in [1..n -> DefaultFlags]} : n \in 0..MaxModels}

\* languageModelsService.getLanguageModelIds()
GetLanguageModelIds(models) == [i \in 1..Len(models) |-> models[i].id]

\* languageModelsService.lookupLanguageModel(id)
LookupLanguageModel(models, id) ==
    LET at == {i \in 1..Len(models) : models[i].id = id} IN
    IF at = {} THEN Undefined ELSE JObject(models[CHOOSE i \in at : TRUE].metadata)

\* model?.isDefault
IsDefault(model) == IF Nullish(model) THEN Undefined ELSE model.v.isDefault

RECURSIVE FindDefault(_, _, _)
\* for (const modelId of models) { if (lookup(modelId)?.isDefault) { ...; break; } }
\* from the i-th identifier: the identifier selected, or null.
FindDefault(models, ids, i) ==
    IF i > Len(ids) THEN JNull
    ELSE IF Truthy(IsDefault(LookupLanguageModel(models, ids[i]))) THEN ids[i]
    ELSE FindDefault(models, ids, i + 1)

\* As Fallback, with the first listed model taken whatever was selected.
FallbackAlways(selected, ids) == IF Len(ids) > 0 THEN ids[1] ELSE selected

\* if (!selectedModelId && models.length > 0) { selectedModelId = models[0]; }
Fallback(selected, ids) ==
    IF ~Truthy(selected) /\ Len(ids) > 0 THEN ids[1] ELSE selected

\* The text of the warning the agent reports with an errorDetails message.
WarningText(message) ==
    IF message = "No language models available"
    THEN "No language models are available. Please check the Developer Tools console for errors."
    ELSE "Could not find a suitable language model."

\* The warning the agent reports instead of sending a request.
Warning(message) == [t |-> "warning", v |-> WarningText(message)]

\* The agent returns errorDetails after a warning, having sent nothing.
NotFound(c, message) == [c EXCEPT !.state = "notfound", !.error = message]

\* if (!selectedModelId || !selectedModel) { ... return { errorDetails } }
Selected(c, models, selected) ==
    IF ~Truthy(selected) \/ ~Truthy(LookupLanguageModel(models, selected))
    THEN NotFound(c, "No suitable model found")
    ELSE [c EXCEPT !.state = "selected", !.selected = selected]

\* invoke, up to the model it selects
Select(c, ids) ==
    IF Len(ids) = 0 THEN NotFound(c, "No language models available")
    ELSE Selected(c, c.models, Fallback(FindDefault(c.models, ids, 1), ids))

\* An invocation of the agent that has not run.
NewInvoke(models) ==
    [op |-> "invoke", models |-> models, state |-> "pending", selected |-> JNull,
     error |-> "", sent |-> FALSE]

InitSelect ==
    /\ \E models \in ModelLists : call = NewInvoke(models)
    /\ stream = NoStream
    /\ token = [cancelled |-> FALSE, when |-> "never"]
    /\ progress = <<>>

\* The agent lists the models and selects one, or reports that it found none.
SelectModel ==
    /\ call.op = "invoke" /\ call.state = "pending"
    /\ call' = Select(call, GetLanguageModelIds(call.models))
    /\ progress' = IF call'.state = "notfound"
                   THEN Append(progress, Warning(call'.error)) ELSE progress
    /\ UNCHANGED <<stream, token>>

\* languageModelsService.sendChatRequest(selectedModelId, ...)
RequestSelected ==
    /\ call.op = "invoke" /\ call.state = "selected" /\ ~call.sent
    /\ call' = [call EXCEPT !.sent = TRUE]
    /\ UNCHANGED <<stream, token, progress>>

NextSelect == SelectModel \/ RequestSelected

SpecSelect == InitSelect /\ [][NextSelect]_vars

----------------------------------------------------------------------------
\* C20: default-model selection.  With no model listed the agent reports that
\* none is available and sends no request; otherwise it selects the first
\* listed model whose isDefault is true, or the first listed model when no
\* model has isDefault true, and only then sends the request.
DefaultSelection ==
    (call.op = "invoke" /\ call.state # "pending") =>
        LET defaults == {i \in 1..Len(call.models) :
                            call.models[i].metadata.isDefault = JBool(TRUE)}
        IN /\ Len(call.models) = 0 =>
                 /\ call.state = "notfound" /\ ~call.sent
                 /\ progress = <<Warning("No language models available")>>
           /\ Len(call.models) > 0 =>
                 /\ call.state = "selected" /\ progress = <<>>
                 /\ defaults = {} => call.selected = call.models[1].id
                 /\ defaults # {} =>
                       \E i \in defaults :
                          /\ \A j \in defaults : i <= j
                          /\ call.selected = call.models[i].id
           /\ call.sent => call.state = "selected"

\* Four models listed, the third and the fourth default: the third was selected
\* and the request sent.
DefaultSelectionWitness ==
    /\ call.op = "invoke" /\ Len(call.models) = 4
    /\ call.models[1].metadata.isDefault = JBool(FALSE)
    /\ call.models[2].metadata.isDefault = Undefined
    /\ call.models[3].metadata.isDefault = JBool(TRUE)
    /\ call.models[4].metadata.isDefault = JBool(TRUE)
    /\ call.selected = ModelId(3) /\ call.sent

----------------------------------------------------------------------------
(* The model lists the three providers advertise.                          *)

\* s.startsWith(p, i - 1)
StartsWithAt(s, i, p) == i + Len(p) - 1 <= Len(s) /\ SubSeq(s, i, i + Len(p) - 1) = p

RECURSIVE ReplaceAll(_, _, _, _)
\* s.replace(/p/g, r) from position i on, p a literal without empty match
ReplaceAll(s, i, p, r) ==
    IF i > Len(s) THEN <<>>
    ELSE IF StartsWithAt(s, i, p) THEN r \o ReplaceAll(s, i + Len(p), p, r)
    ELSE <<s[i]>> \o ReplaceAll(s, i + 1, p, r)

\* s.replace(p, r), p a string: the first occurrence only
ReplaceFirst(s, p, r) ==
    LET at == {i \in 1..Len(s) : StartsWithAt(s, i, p)} IN
    IF at = {} THEN s
    ELSE LET i == CHOOSE i \in at : \A j \in at : i <= j
         IN SubSeq(s, 1, i - 1) \o r \o SubSeq(s, i + Len(p), Len(s))

OllamaPrefix == <<"o", "l", "l", "a", "m", "a", "-">>
DotCode == <<"_", "d", "o", "t", "_">>
ColonCode == <<"_", "c", "o", "l", "o", "n", "_">>

\* `ollama-${modelName.replace(/\./g, '_dot_').replace(/:/g, '_colon_')}`
EncodeModelId(modelName) ==
    OllamaPrefix \o ReplaceAll(ReplaceAll(modelName, 1, <<".">>, DotCode), 1, <<":">>, ColonCode)

\* modelId.replace('ollama-', '').replace(/_dot_/g, '.').replace(/_colon_/g, ':')
DecodeModelName(modelId) ==
    ReplaceAll(ReplaceAll(ReplaceFirst(modelId, OllamaPrefix, <<>>), 1, DotCode, <<".">>),
               1, ColonCode, <<":">>)

\* Pieces of a model name: at most MaxNameTokens make one name.
MaxNameTokens == 2
NameTokens == {<<"a">>, <<".">>, <<":">>, <<"_">>, DotCode, ColonCode, OllamaPrefix}

RECURSIVE Flatten(_, _)
\* The concatenation of the sequences of ss from the i-th on.
Flatten(ss, i) == IF i > Len(ss) THEN <<>> ELSE ss[i] \o Flatten(ss, i + 1)

\* The model names discovery may report.
ModelNames ==
    {Flatten(ts, 1) : ts \in UNION {[1..n -> NameTokens] : n \in 0..MaxNameTokens}}

\* Names of the models of a longer discovery answer.
ShortNames == {<<"a">>, <<"a", ":", "a">>, <<"a", ".", "a">>}

\* Models a discovery answer may list beyond the first: at most MaxTags in all.
MaxTags == 3

KeyModels == <<"m", "o", "d", "e", "l", "s">>
KeyName == <<"n", "a", "m", "e">>

\* { name: ... }, an entry of the discovery answer
Tag(name) == JObject(<<[k |-> KeyName, val |-> name]>>)

\* { models: ... }, a discovery answer
Tags(models) == JObject(<<[k |-> KeyModels, val |-> models]>>)

\* What response.json() of GET /api/tags may resolve to: values without a usable
\* list, one model of any name, and several models of distinct names.
TagsData ==
    {JNull, JObject(<<>>), Tags(JNull), Tags(JNumber(5)), Tags(JArray(<<>>)),
     Tags(JArray(<<JNull>>)), Tags(JArray(<<Tag(JNumber(5))>>)),
     Tags(JArray(<<Tag(JString(<<"a">>)), JObject(<<>>)>>))}
    \cup {Tags(JArray(<<Tag(JString(n))>>)) : n \in ModelNames}
    \cup {Tags(JArray([i \in DOMAIN names |-> Tag(JString(names[i]))])) :
             names \in {f \in UNION {[1..k -> ShortNames] : k \in 2..MaxTags} :
                           \A i, j \in DOMAIN f : i # j => f[i] # f[j]}}

\* How GET /api/tags may end: fetch rejects, a status that is not a success,
\* a body that is not JSON, or an answer.
TagsResponses ==
    {[kind |-> k, data |-> Undefined] : k \in {"reject", "notok", "badjson"}}
    \cup {[kind |-> "ok", data |-> d] : d \in TagsData}

\* An entry of a provider's model list.
Descriptor(identifier, id, vendor, isDefault, isUserSelectable) ==
    [id |-> JString(identifier),
     metadata |-> [id |-> id, vendor |-> vendor, isDefault |-> JBool(isDefault),
                   isUserSelectable |-> JBool(isUserSelectable)]]

\* provideLanguageModelChatInfo returns a list, or throws.
Listed(list) == [thrown |-> FALSE, list |-> list]
InfoThrown == [thrown |-> TRUE, list |-> <<>>]

\* OpenAILanguageModelProvider.provideLanguageModelChatInfo: return [];
OpenAIInfo == Listed(<<>>)

\* AnthropicLanguageModelProvider.provideLanguageModelChatInfo
AnthropicInfo(apiKey) ==
    IF ~Truthy(apiKey) THEN Listed(<<>>)
    ELSE Listed(<<Descriptor(<<"anthropic-claude-3.5-sonnet">>,
                             <<"claude-3-5-sonnet-20241022">>, "anthropic", FALSE, TRUE)>>)

\* The entry the Ollama provider returns when no model is installed.
OllamaSuggestion ==
    Descriptor(OllamaPrefix \o <<"s", "u", "g", "g", "e", "s", "t", "i", "o", "n">>,
               <<"n", "o", "n", "e">>, "ollama", FALSE, FALSE)

\* As OllamaPush, with every model the default.
OllamaPushAllDefault(modelList, modelName) ==
    Append(modelList, Descriptor(EncodeModelId(modelName), modelName, "ollama", TRUE, TRUE))

\* modelList.push({ identifier, metadata: { ..., isDefault: modelList.length === 0 } })
OllamaPush(modelList, modelName) ==
    Append(modelList,
           Descriptor(EncodeModelId(modelName), modelName, "ollama", Len(modelList) = 0, TRUE))

RECURSIVE OllamaModelList(_, _, _)
\* for (const model of models) { ... modelList.push(...) } from the i-th model on;
\* model.name of null or undefined, and replace of what is no string, throw
OllamaModelList(models, i, modelList) ==
    IF i > Len(models) THEN Listed(modelList)
    ELSE IF Nullish(models[i]) \/ GetProp(models[i], KeyName).t # "string" THEN InfoThrown
    ELSE OllamaModelList(models, i + 1, OllamaPush(modelList, GetProp(models[i], KeyName).v))

\* if (modelList.length === 0) { return [suggestion]; } return modelList;
OllamaReturn(r) ==
    IF ~r.thrown /\ r.list = <<>> THEN Listed(<<OllamaSuggestion>>) ELSE r

\* The statements after `const data = await response.json()`; what is truthy and
\* not an array cannot be iterated.
OllamaModels(data, models) ==
    IF models.t # "array" THEN InfoThrown
    ELSE OllamaReturn(OllamaModelList(models.v, 1, <<>>))

\* The try block of the Ollama provider's provideLanguageModelChatInfo.
OllamaTryInfo(response) ==
    CASE response.kind \in {"reject", "badjson"} -> InfoThrown
      [] response.kind = "notok" -> Listed(<<>>)
      [] OTHER -> IF Nullish(response.data) THEN InfoThrown
                  ELSE OllamaModels(response.data,
                                    Or(GetProp(response.data, KeyModels), JArray(<<>>)))

\* As CatchInfo, with the error thrown on.
CatchInfoRethrown(r) == r

\* catch (error) { return []; }
CatchInfo(r) == IF r.thrown THEN Listed(<<>>) ELSE r

\* OllamaLanguageModelProvider.provideLanguageModelChatInfo
OllamaInfo(response) == CatchInfo(OllamaTryInfo(response))

\* provideLanguageModelChatInfo of the three providers, by vendor
ProvideInfo(c) ==
    [openai |-> OpenAIInfo, anthropic |-> AnthropicInfo(c.apiKey),
     ollama |-> OllamaInfo(c.response)]

\* The providers before any is asked for its models: the Anthropic key of the
\* settings and the answer the Ollama discovery endpoint will give decide the
\* lists.  pc is where each provider's provideLanguageModelChatInfo stands:
\* not called, awaiting fetch, awaiting response.json(), or settled.
NewDiscovery(apiKey, response) ==
    [op |-> "discover", apiKey |-> apiKey, response |-> response, state |-> "open",
     pc |-> [v \in Vendors |-> "idle"],
     lists |-> [v \in Vendors |-> Listed(<<>>)],
     request |-> [identifier |-> <<>>, name |-> <<>>, model |-> <<>>]]

InitDiscover ==
    /\ \E apiKey \in KeyValues, response \in TagsResponses :
          call = NewDiscovery(apiKey, response)
    /\ stream = NoStream
    /\ token = [cancelled |-> FALSE, when |-> "never"]
    /\ progress = <<>>

\* The provider of vendor v has returned its list.
Settle(c, v, r) == [c EXCEPT !.pc[v] = "settled", !.lists[v] = r]

\* The OpenAI provider is asked for its models: it has no await and settles in
\* the call.
AskOpenAI ==
    /\ call.op = "discover" /\ call.pc.openai = "idle"
    /\ call' = Settle(call, "openai", ProvideInfo(call).openai)
    /\ UNCHANGED <<stream, token, progress>>

\* The Anthropic provider is asked for its models: no await either.
AskAnthropic ==
    /\ call.op = "discover" /\ call.pc.anthropic = "idle"
    /\ call' = Settle(call, "anthropic", ProvideInfo(call).anthropic)
    /\ UNCHANGED <<stream, token, progress>>

\* The Ollama provider is asked for its models: it runs up to
\* await fetch(`${baseURL}/api/tags`) and waits for the endpoint.
AskOllama ==
    /\ call.op = "discover" /\ call.pc.ollama = "idle"
    /\ call' = [call EXCEPT !.pc.ollama = "fetch"]
    /\ UNCHANGED <<stream, token, progress>>

\* fetch settles.  A rejection and a status that is no success end the call
\* with the empty list; otherwise the provider waits for the body at
\* await response.json().
OnTagsResponse(c) ==
    IF c.response.kind \in {"reject", "notok"}
    THEN Settle(c, "ollama", ProvideInfo(c).ollama)
    ELSE [c EXCEPT !.pc.ollama = "json"]

TagsResponse ==
    /\ call.op = "discover" /\ call.pc.ollama = "fetch"
    /\ call' = OnTagsResponse(call)
    /\ UNCHANGED <<stream, token, progress>>

\* response.json() settles: the rest of the call runs and the list is returned.
TagsBody ==
    /\ call.op = "discover" /\ call.pc.ollama = "json"
    /\ call' = Settle(call, "ollama", ProvideInfo(call).ollama)
    /\ UNCHANGED <<stream, token, progress>>

\* A request for an advertised Ollama model: sendChatRequest decodes the name of
\* the model from the identifier.
SendOllama ==
    /\ call.op = "discover" /\ call.state = "open" /\ call.pc.ollama = "settled"
    /\ \E i \in DOMAIN call.lists.ollama.list :
          LET d == call.lists.ollama.list[i] IN
          call' = [call EXCEPT !.state = "requested",
                               !.request = [identifier |-> d.id.v, name |-> d.metadata.id,
                                            model |-> DecodeModelName(d.id.v)]]
    /\ UNCHANGED <<stream, token, progress>>

\* The agent is invoked, at any moment of the discovery, with the models of the
\* providers that have settled, listed in the order of their registration; a
\* provider that has not settled has no model listed.
Invoke ==
    /\ call.op = "discover" /\ call.state = "open"
    /\ \A v \in Vendors : ~call.lists[v].thrown
    /\ call' = NewInvoke(call.lists.openai.list \o call.lists.anthropic.list
                            \o call.lists.ollama.list)
    /\ UNCHANGED <<stream, token, progress>>

NextDiscover ==
    \/ AskOpenAI \/ AskAnthropic \/ AskOllama \/ TagsResponse \/ TagsBody
    \/ SendOllama \/ Invoke \/ SelectModel \/ RequestSelected

SpecDiscover == InitDiscover /\ [][NextDiscover]_vars

----------------------------------------------------------------------------
\* The provider of vendor v has been asked for its models and has answered.
Asked(v) == call.op = "discover" /\ call.pc[v] = "settled"

\* C21: in every list a provider returns, for any setting of the key and any
\* discovery answer, at most one model has isDefault true.
AtMostOneDefault ==
    call.op = "discover" =>
        \A v \in Vendors :
           LET list == call.lists[v].list IN
           \A i, j \in DOMAIN list :
              (list[i].metadata.isDefault = JBool(TRUE)
                 /\ list[j].metadata.isDefault = JBool(TRUE)) => i = j

\* Discovery answered with three models: the first is the default, the others
\* are listed and are not.
AtMostOneDefaultWitness ==
    /\ Asked("ollama") /\ Len(call.lists.ollama.list) = 3
    /\ call.lists.ollama.list[1].metadata.isDefault = JBool(TRUE)
    /\ call.lists.ollama.list[3].metadata.isDefault = JBool(FALSE)

\* C22: the Ollama provider's model query never raises, whatever the endpoint
\* does; when the endpoint is not reached, answers with a status that is not a
\* success, or with a body that cannot be read, the provider returns the empty
\* list.
DiscoveryNeverRaises ==
    call.op = "discover" =>
        /\ ~call.lists.ollama.thrown
        /\ call.response.kind # "ok" => call.lists.ollama.list = <<>>
        /\ (call.pc.ollama = "json") => call.response.kind \in {"ok", "badjson"}

\* The connection to the endpoint failed, and the provider returned the empty
\* list.
DiscoveryNeverRaisesWitness ==
    /\ Asked("ollama") /\ call.response.kind = "reject"
    /\ call.lists.ollama = Listed(<<>>)

----------------------------------------------------------------------------
\* C29: the model name sendChatRequest decodes from an advertised Ollama
\* identifier is the name discovery reported, whatever dots, colons,
\* underscores, codes or prefixes the name contains.
ModelNameRoundTrip ==
    (call.op = "discover" /\ call.state = "requested"
        /\ call.request.identifier # OllamaSuggestion.id.v) =>
        call.request.model = call.request.name

----------------------------------------------------------------------------
\* C30: the model the agent sends its request for is user-selectable, for every
\* combination of lists the providers return.
OnlySelectableRequested ==
    (call.op = "invoke" /\ call.sent) =>
        \E i \in DOMAIN call.models :
           /\ call.models[i].id = call.selected
           /\ call.models[i].metadata.isUserSelectable = JBool(TRUE)

----------------------------------------------------------------------------
(* Configuration changes and the providers' change notifications.          *)

\* Settings a configuration change may name, as paths.
ConfigKeys ==
    {<<"languageModels", v, o>> : v \in Vendors, o \in {"apiKey", "baseURL"}}
    \cup {<<"languageModels", "ollama", "model">>, <<"editor", "fontSize">>}

\* Configuration change events one run delivers: at most MaxEvents.
MaxEvents == 2

\* e.affectsConfiguration(section): a changed key is the section or lies in it
AffectsConfiguration(keys, section) ==
    \E key \in keys : Len(key) >= Len(section) /\ SubSeq(key, 1, Len(section)) = section

\* As Section, with every provider listening to the languageModels section.
SectionShared(vendor) == <<"languageModels">>

\* The section each provider's listener tests.
Section(vendor) ==
    CASE vendor = "openai" -> <<"languageModels", "openai">>
      [] vendor = "anthropic" -> <<"languageModels", "anthropic">>
      [] vendor = "ollama" -> <<"languageModels", "ollama", "baseURL">>

\* if (e.affectsConfiguration(...)) { this._onDidChange.fire(); }
OnDidChangeConfiguration(fired, vendor, keys) ==
    IF AffectsConfiguration(keys, Section(vendor)) THEN fired + 1 ELSE fired

\* The providers as constructed: no notification fired, no event seen.
NewProviders ==
    [op |-> "configure", events |-> 0, keys |-> {},
     fired |-> [v \in Vendors |-> 0], before |-> [v \in Vendors |-> 0]]

InitConfigure ==
    /\ call = NewProviders
    /\ stream = NoStream
    /\ token = [cancelled |-> FALSE, when |-> "never"]
    /\ progress = <<>>

\* The configuration service fires one change event: each provider's listener
\* runs once with it.
ChangeConfiguration ==
    /\ call.op = "configure" /\ call.events < MaxEvents
    /\ \E keys \in SUBSET ConfigKeys \ {{}} :
          call' = [call EXCEPT !.events = @ + 1, !.keys = keys, !.before = call.fired,
                               !.fired = [v \in Vendors |->
                                             OnDidChangeConfiguration(call.fired[v], v, keys)]]
    /\ UNCHANGED <<stream, token, progress>>

NextConfigure == ChangeConfiguration

SpecConfigure == InitConfigure /\ [][NextConfigure]_vars

----------------------------------------------------------------------------
\* The apiKey and baseURL options a vendor's provider reads: Ollama reads no key.
Options(vendor) ==
    IF vendor = "ollama" THEN {<<"languageModels", "ollama", "baseURL">>}
    ELSE {<<"languageModels", vendor, "apiKey">>, <<"languageModels", vendor, "baseURL">>}

\* C23: a configuration change event that names an apiKey or baseURL option of a
\* vendor makes that vendor's provider fire its change notification once; an
\* event that names only options of other vendors makes it fire nothing.
ChangeNotification ==
    (call.op = "configure" /\ call.events > 0) =>
        \A v \in Vendors :
           /\ call.keys \cap Options(v) # {} => call.fired[v] = call.before[v] + 1
           /\ call.keys \subseteq UNION {Options(w) : w \in Vendors \ {v}}
                 => call.fired[v] = call.before[v]

\* Two events, the first on the OpenAI key, the second on the Ollama base URL
\* and the Anthropic key: OpenAI has fired once, and so have the other two.
ChangeNotificationWitness ==
    /\ call.op = "configure" /\ call.events = 2
    /\ call.keys = {<<"languageModels", "ollama", "baseURL">>,
                    <<"languageModels", "anthropic", "apiKey">>}
    /\ call.before = [v \in Vendors |-> IF v = "openai" THEN 1 ELSE 0]
    /\ call.fired = [v \in Vendors |-> 1]

----------------------------------------------------------------------------
(* Registration of the vendors and of the providers.                       *)

\* Vendor ids: those of the three providers, and one only an extension uses.
VendorIds == Vendors \cup {"copilot"}

\* Who made a binding: nobody, this core, or an extension.
Unbound == "none"

\* One registration: what was bound to the id before, what is after, and whether
\* the registration failed with a conflict.
Attempt(kind, id, prior, after, failed) ==
    [kind |-> kind, id |-> id, prior |-> prior, after |-> after, failed |-> failed]

\* register(vendorId, provider) of the registry: fails with a conflict if the id
\* is bound, and binds it otherwise.
Register(bindings, id, owner) ==
    IF bindings[id] # Unbound THEN [failed |-> TRUE, bindings |-> bindings]
    ELSE [failed |-> FALSE, bindings |-> [bindings EXCEPT ![id] = owner]]

\* service._vendors.set(id, { vendor: id, ... }): binds the id, bound or not
SetVendor(vendors, id) == [vendors EXCEPT ![id] = "core"]

\* registerCoreVendors: the three set calls
RegisterCoreVendorsOf(vendors) ==
    SetVendor(SetVendor(SetVendor(vendors, "openai"), "anthropic"), "ollama")

RECURSIVE RegisterFrom(_, _, _)
\* The register calls of registerProviders from the i-th on, inside its try
\* block: a call that throws ends the block.
RegisterFrom(providers, order, i) ==
    IF i > Len(order) THEN [providers |-> providers, done |-> Len(order), failed |-> FALSE]
    ELSE LET r == Register(providers, order[i], "core")
         IN IF r.failed THEN [providers |-> providers, done |-> i, failed |-> TRUE]
            ELSE RegisterFrom(r.bindings, order, i + 1)

\* The order in which registerProviders registers.
ProviderOrder == <<"openai", "anthropic", "ollama">>

\* The registry as the workbench starts: nothing bound.
NewRegistry ==
    [op |-> "register", vendors |-> [id \in VendorIds |-> Unbound],
     providers |-> [id \in VendorIds |-> Unbound],
     coreVendors |-> FALSE, coreProviders |-> FALSE, attempts |-> {}]

InitRegister ==
    /\ call = NewRegistry
    /\ stream = NoStream
    /\ token = [cancelled |-> FALSE, when |-> "never"]
    /\ progress = <<>>

\* An extension contributes a vendor.
ContributeVendor ==
    /\ call.op = "register"
    /\ \E id \in VendorIds :
          LET r == Register(call.vendors, id, "extension") IN
          call' = [call EXCEPT !.vendors = r.bindings,
                               !.attempts = {Attempt("vendor", id, call.vendors[id],
                                                     r.bindings[id], r.failed)}]
    /\ UNCHANGED <<stream, token, progress>>

\* An extension registers a provider.
ContributeProvider ==
    /\ call.op = "register"
    /\ \E id \in VendorIds :
          LET r == Register(call.providers, id, "extension") IN
          call' = [call EXCEPT !.providers = r.bindings,
                               !.attempts = {Attempt("provider", id, call.providers[id],
                                                     r.bindings[id], r.failed)}]
    /\ UNCHANGED <<stream, token, progress>>

\* CoreLanguageModelVendorsContribution is constructed: registerCoreVendors
RegisterCoreVendors ==
    /\ call.op = "register" /\ ~call.coreVendors
    /\ LET after == RegisterCoreVendorsOf(call.vendors) IN
       call' = [call EXCEPT !.coreVendors = TRUE, !.vendors = after,
                            !.attempts = {Attempt("vendor", id, call.vendors[id],
                                                  after[id], FALSE) : id \in Vendors}]
    /\ UNCHANGED <<stream, token, progress>>

\* LanguageModelProvidersContribution is constructed: registerProviders, whose
\* catch logs the error of a register call.
RegisterProviders ==
    /\ call.op = "register" /\ ~call.coreProviders
    /\ LET r == RegisterFrom(call.providers, ProviderOrder, 1) IN
       call' = [call EXCEPT !.coreProviders = TRUE, !.providers = r.providers,
                            !.attempts =
                               {Attempt("provider", ProviderOrder[i],
                                        call.providers[ProviderOrder[i]],
                                        r.providers[ProviderOrder[i]],
                                        r.failed /\ i = r.done) : i \in 1..r.done}]
    /\ UNCHANGED <<stream, token, progress>>

\* The contribution is disposed: the handles of its registrations remove the
\* bindings they made.
DisposeProviders ==
    /\ call.op = "register" /\ call.coreProviders
    /\ \E id \in VendorIds : call.providers[id] = "core"
    /\ call' = [call EXCEPT !.attempts = {},
                            !.providers = [id \in VendorIds |->
                                              IF call.providers[id] = "core" THEN Unbound
                                              ELSE call.providers[id]]]
    /\ UNCHANGED <<stream, token, progress>>

NextRegister ==
    \/ ContributeVendor \/ ContributeProvider
    \/ RegisterCoreVendors \/ RegisterProviders \/ DisposeProviders

SpecRegister == InitRegister /\ [][NextRegister]_vars

----------------------------------------------------------------------------
\* C24: a registration of a vendor or of a provider under an id that is bound
\* fails with a conflict and leaves the binding as the first registration made
\* it.
RegistrationConflict ==
    call.op = "register" =>
        \A a \in call.attempts :
           a.prior # Unbound => a.failed /\ a.after = a.prior

----------------------------------------------------------------------------
(* Two requests in flight at once.                                         *)

\* One request: its stream, its cancellation token, its consumer's progress calls.
Request(s, t, p) == [stream |-> s, token |-> t, progress |-> p]

\* The positions at which the transport may end a chunk, within `edge` bytes of
\* a line's start or end.
CutsWithin(body, edge) ==
    {p \in 1..Len(body) :
        \/ p = Len(body)
        \/ \E q \in LineEdges(body) : p - q \in (0 - edge)..edge}

\* After the consumer's steps on a request: its pulls and its return().
ConsumerSteps(s, p) ==
    {Request(Start(s), 0, p) : x \in {1} \cap {IF s.pc = "created" THEN 1 ELSE 0}}
    \cup {Request(RunLines(s), 0,
                  Caught(OnChunk(p, s.delivered[Len(s.delivered)]), RunLines(s))) :
             x \in {1} \cap {IF s.pc = "yielded" THEN 1 ELSE 0}}
    \cup {Request(ReturnAtYield(s), 0, p) : x \in {1} \cap {IF s.pc = "yielded" THEN 1 ELSE 0}}

\* After the transport's answers to fetch: a response whose body is made of the
\* lines ix and the tail, a response that is not ok or has no body, a rejection.
FetchSteps(s, ixs, tails) ==
    IF s.pc # "fetching" THEN {}
    ELSE IF s.aborted THEN {Throw(s, AbortError)}
    ELSE {OnResponse([s EXCEPT !.response = "ok", !.statusText = "OK",
                               !.ix = ix, !.tail = tail], TRUE, "OK", TRUE) :
             ix \in ixs, tail \in tails}
         \cup {OnResponse([s EXCEPT !.response = "notok", !.statusText = st],
                          FALSE, st, hasBody) : st \in StatusTexts, hasBody \in BOOLEAN}
         \cup {OnResponse([s EXCEPT !.response = "nobody", !.statusText = "OK"],
                          TRUE, "OK", FALSE),
               Throw(s, NetworkError)}

\* After the transport's answers to reader.read(): a chunk that ends at one of
\* the cuts, the end of the data, a rejection.
ReadSteps(s, body, cuts) ==
    IF s.pc # "reading" THEN {}
    ELSE IF s.aborted THEN {Throw(s, AbortError)}
    ELSE {OnRead([s EXCEPT !.pos = p, !.readAny = TRUE,
                           !.splitChar = @ \/ body[p] = "xC3",
                           !.lateRead = @ \/ s.signal.pc # "none"],
                 FALSE, SubSeq(body, s.pos + 1, p)) : p \in {q \in cuts : q > s.pos}}
         \cup {OnRead([s EXCEPT !.eof = TRUE], TRUE, <<>>) :
                  x \in {1} \cap {IF s.pos = Len(body) THEN 1 ELSE 0}}
         \cup {Throw(s, NetworkError)}

\* After token.cancel(), and after the timer of a listener bound to a cancelled
\* token.
CancelSteps(s, t, p) ==
    {Request(IF s.subscribed THEN Signalled(Abort(s), s) ELSE s,
             [cancelled |-> TRUE, when |-> s.pc], p) :
        x \in {1} \cap {IF t.cancelled THEN 0 ELSE 1}}
    \cup {Request(Signalled(Abort(s), s), t, p) :
             x \in {1} \cap {IF t.cancelled /\ Listening(s) THEN 1 ELSE 0}}

\* Every request one step of the request r may lead to, the response drawn from
\* the lines ixs, the tails and the cuts within `edge` bytes of a line edge.
Successors(r, ixs, tails, edge) ==
    {Request(n.stream, r.token, n.progress) : n \in ConsumerSteps(r.stream, r.progress)}
    \cup {Request(s, r.token, Caught(r.progress, s)) :
             s \in FetchSteps(r.stream, ixs, tails)
                      \cup ReadSteps(r.stream, Body(r.stream),
                                     CutsWithin(Body(r.stream), edge))}
    \cup CancelSteps(r.stream, r.token, r.progress)

\* The vendors of the two requests: the same provider twice, or two providers.
PairVendors == {<<"openai", "openai">>, <<"openai", "ollama">>}

\* The lines of the response to the i-th request: the two delta frames, in an
\* order of its own.
PairLines(i) == IF i = 1 THEN {<<1, 2>>} ELSE {<<2, 1>>}

\* In the two-request model a chunk ends within PairEdge bytes of a line edge.
PairEdge == 1

\* As Put, with the decoder's buffer held in one place for all requests.
PutSharedBuffer(requests, i, n) ==
    [j \in DOMAIN requests |->
        IF j = i THEN n
        ELSE [requests[j] EXCEPT !.stream.buffer = n.stream.buffer]]

\* A step of the i-th request writes the locals of its own generator call only.
Put(requests, i, n) == [requests EXCEPT ![i] = n]

InitPair ==
    /\ \E vs \in PairVendors :
          call = [op |-> "pair",
                  requests |-> [i \in 1..2 |->
                                   Request(NewStream(vs[i]),
                                           [cancelled |-> FALSE, when |-> "never"], <<>>)]]
    /\ stream = NoStream
    /\ token = [cancelled |-> FALSE, when |-> "never"]
    /\ progress = <<>>

\* One step of the i-th request: of its consumer, its transport or its token.
StepOf(i) ==
    /\ call.op = "pair"
    /\ \E n \in Successors(call.requests[i], PairLines(i), {0}, PairEdge) :
          call' = [call EXCEPT !.requests = Put(@, i, n)]
    /\ UNCHANGED <<stream, token, progress>>

StepFirst == StepOf(1)

StepSecond == StepOf(2)

NextPair == StepFirst \/ StepSecond

SpecPair == InitPair /\ [][NextPair]_vars

----------------------------------------------------------------------------
\* What the i-th request delivers when it runs alone and reads its body to the end.
AloneTexts(i) ==
    IF i = 1 THEN <<JString(<<"a">>), JString(<<"U+E9">>)>>
    ELSE <<JString(<<"U+E9">>), JString(<<"a">>)>>

\* C25: independence of concurrent requests.  Under every interleaving of the
\* steps of two requests, each has delivered a prefix of what it delivers alone,
\* and all of it once its own data has ended, whatever became of the other; and
\* a step of one request (a chunk, a pull, a failure, a cancellation) leaves the
\* other request's stream, token and progress calls as they were.
Independence ==
    /\ [](call.op = "pair" =>
            \A i \in 1..2 :
               LET r == call.requests[i] IN
               /\ IsPrefix(Values(r.stream.delivered), AloneTexts(i))
               /\ IsPrefix(DeltaCalls(r.progress), AloneTexts(i))
               /\ r.stream.eof => Values(r.stream.delivered) = AloneTexts(i)
               /\ ~r.token.cancelled => r.stream.aborts = 0)
    /\ [][call.op = "pair" =>
            \A i \in 1..2 :
               call'.requests[i] # call.requests[i]
                  => call'.requests[3 - i] = call.requests[3 - i]]_vars

\* The first request was cancelled while it read and ended with one delta; the
\* second, to the same provider and not cancelled, read its body to the end,
\* and its consumer received both its deltas.
IndependenceWitness ==
    /\ call.op = "pair"
    /\ call.requests[1].stream.signal.pc = "reading"
    /\ call.requests[1].stream.outcome = "done"
    /\ Len(call.requests[1].stream.delivered) = 1
    /\ call.requests[2].stream.vendor = "openai"
    /\ ~call.requests[2].token.cancelled
    /\ call.requests[2].stream.eof
    /\ call.requests[2].progress = AloneTexts(2)

----------------------------------------------------------------------------
\* The texts of the frames that make the first n lines of the stream's body.
LineTexts(s, n) == FrameTexts(SubSeq(s.ix, 1, n), 1)

\* The complete lines among the bytes of the body read so far.
LinesRead(s) == Cardinality({i \in 1..s.pos : Body(s)[i] = "\n"})

\* C26: incremental delivery.  Whenever the stream is about to read its next
\* chunk, every delta of the complete lines received so far has been delivered
\* to the consumer and passed on by it: nothing waits for the end of the data.
IncrementalDelivery ==
    stream.pc = "reading" =>
        /\ stream.lines = <<>>
        /\ Values(stream.delivered) = LineTexts(stream, LinesRead(stream))
        /\ progress = LineTexts(stream, LinesRead(stream))

\* A delta has reached the consumer's progress call while the stream waits for
\* a chunk, bytes of the body are still to come and no end of data was seen.
IncrementalDeliveryWitness ==
    /\ stream.pc = "reading" /\ ~stream.eof
    /\ stream.pos < Len(Body(stream))
    /\ stream.ix = <<1, 2>>
    /\ progress = <<JString(<<"a">>)>>

----------------------------------------------------------------------------
\* C27: the stream sendChatRequest returns has done nothing until it is pulled:
\* no request issued, no listener bound to the token, whatever happens to the
\* token meanwhile; the first pull issues the one request and binds the one
\* listener.
LazyStart ==
    /\ stream.pc = "created" =>
          /\ stream.fetches = 0 /\ stream.binds = 0 /\ ~stream.subscribed
          /\ stream.aborts = 0 /\ stream.response = "none" /\ progress = <<>>
    /\ stream.pc # "created" => stream.fetches = 1 /\ stream.binds = 1
    /\ stream.pc = "fetching" => stream.subscribed /\ stream.response = "none"

\* A stream whose token was cancelled before any pull, then pulled: the request
\* is issued and the listener bound at that pull.
LazyStartWitness ==
    /\ token.cancelled /\ token.when = "created"
    /\ stream.pc = "fetching" /\ stream.fetches = 1 /\ stream.binds = 1
    /\ stream.aborts = 0

----------------------------------------------------------------------------
\* The lines of the bodies of the responses in the fair specification.
FairLines == {<<>>, <<1>>, <<1, 2>>, <<3, 1>>, <<2, 3, 1>>}

\* fetch resolves with an ok response whose body is made of lines of FairLines.
FetchOkFair ==
    /\ stream.pc = "fetching" /\ ~stream.aborted
    /\ \E s \in {n \in FetchSteps(stream, FairLines, TailChoices) : n.response = "ok"} :
          stream' = s /\ progress' = Caught(progress, s)
    /\ UNCHANGED <<token, call>>

\* reader.read() resolves with a chunk that ends within PairEdge bytes of a line
\* edge.
ReadChunkFair ==
    /\ stream.pc = "reading" /\ ~stream.aborted
    /\ \E s \in {n \in ReadSteps(stream, Body(stream), CutsWithin(Body(stream), PairEdge)) :
                     n.pos > stream.pos} :
          stream' = s /\ progress' = Caught(progress, s)
    /\ UNCHANGED <<token, call>>

\* The consumer does not hold an item forever: it leaves its loop or pulls again.
Consumer == Abandon \/ PullNext

\* The transport answers: fetch or reader.read() rejects or resolves.
Transport ==
    \/ FetchFail \/ FetchAborted \/ ReadFail \/ ReadAborted
    \/ FetchOkFair \/ FetchNotOk \/ FetchNoBody \/ ReadChunkFair \/ ReadDone

NextFair == PullFirst \/ Consumer \/ Transport \/ Cancel \/ CancelLater

\* The stream with a consumer that takes its next step whenever it holds an
\* item, and a transport that answers every pending fetch and read.
SpecFair == Init /\ [][NextFair]_vars /\ WF_vars(Consumer) /\ WF_vars(Transport)

\* C28: termination.  A started stream whose consumer keeps pulling and whose
\* transport keeps answering reaches a terminal state with its cancellation
\* listener disposed, and a stream that has seen the end of the data has
\* returned: it reads no more.
Termination ==
    /\ [](stream.eof => stream.pc = "done")
    /\ (stream.pc # "created")
          ~> (stream.pc \in Terminal /\ ~stream.subscribed /\ stream.disposes = 1)

\* A stream that read its whole body, saw the end of the data, and returned
\* with both deltas delivered and its listener disposed.
TerminationWitness ==
    /\ stream.eof /\ stream.pc = "done" /\ stream.ix = <<1, 2>>
    /\ Len(stream.delivered) = 2
    /\ ~stream.subscribed /\ stream.disposes = 1

----------------------------------------------------------------------------
\* The text the decoder has produced from the bytes of the body read so far.
Received(s) == DecodeStream(0, SubSeq(Body(s), 1, s.pos)).text

\* The position of the last line feed of a text, 0 when it has none.
LastFeed(text) ==
    CHOOSE i \in 0..Len(text) :
        /\ i = 0 \/ text[i] = "\n"
        /\ \A j \in (i + 1)..Len(text) : text[j] # "\n"

RECURSIVE Terminated(_, _)
\* The lines from the i-th on, each followed by a line feed, as one text.
Terminated(lines, i) ==
    IF i > Len(lines) THEN <<>> ELSE lines[i] \o <<"\n">> \o Terminated(lines, i + 1)

\* C32: the decoder's buffer.  While the generator runs, the buffer holds no
\* line feed and is the received text after its last line feed; the lines
\* passed to the extraction, then those of the chunk still to be passed, are
\* the complete lines of the received text, each once and in order; and when
\* the loop goes back to read, none is left to be passed.
BufferInvariant ==
    stream.pc \in {"reading", "yielded"} =>
        /\ \A i \in 1..Len(stream.buffer) : stream.buffer[i] # "\n"
        /\ stream.buffer = Slice(Received(stream), LastFeed(Received(stream)))
        /\ \A i \in 1..Len(stream.handed) :
              \A j \in 1..Len(stream.handed[i]) : stream.handed[i][j] # "\n"
        /\ Terminated(stream.handed \o stream.lines, 1)
              = SubSeq(Received(stream), 1, LastFeed(Received(stream)))
        /\ stream.pc = "reading" => stream.lines = <<>>

\* A chunk has been processed that ended inside a line: a line has been passed
\* on and the rest is retained, with more of the body to come.
BufferInvariantWitness ==
    /\ stream.pc = "reading" /\ ~stream.eof
    /\ Len(stream.handed) >= 1
    /\ stream.buffer # <<>>
    /\ stream.pos < Len(Body(stream))

----------------------------------------------------------------------------
(* The chat agent's invoke, from the call to the result it returns.        *)

\* return { metadata: { metadataStr: 'success' } }
Success == [kind |-> "success", message |-> <<>>]

\* return { errorDetails: { message } }
ErrorDetails(message) == [kind |-> "errorDetails", message |-> message]

\* invoke has not returned.
NoResult == [kind |-> "none", message |-> <<>>]

\* The conversation the agent sends: the user's prompt as one text part.
PromptMessages == <<[role |-> "User", content |-> <<TextA>>]>>

\* The listings the agent is invoked with: no model, or one.
AgentModels == {models \in ModelLists : Len(models) <= 1}

\* The loop has ended: return { metadata: { metadataStr: 'success' } }
Completed(c) == [c EXCEPT !.state = "returned", !.result = Success, !.returns = @ + 1]

\* if (...) { progress([...warning...]); return { errorDetails: { message } } }
Refused(c, message) ==
    [c EXCEPT !.state = "returned", !.result = ErrorDetails(<<message>>),
              !.returns = @ + 1]

\* As Failed, with the error thrown on to the caller of invoke.
FailedRethrown(c, error) == [c EXCEPT !.state = "thrown"]

\* catch (error) { progress([...]); return { errorDetails: { message: error.message } } }
Failed(c, error) ==
    [c EXCEPT !.state = "returned", !.result = ErrorDetails(error.message),
              !.returns = @ + 1]

\* invoke up to its first await: the selection, then the request.  The model
\* selected belongs to the provider c.send runs.
Begin(c, selection, send) ==
    IF selection.state = "notfound"
    THEN Refused([c EXCEPT !.invoke = selection], selection.error)
    ELSE IF send.state = "thrown"
    THEN Failed([c EXCEPT !.invoke = [selection EXCEPT !.sent = TRUE], !.send = send],
                send.error)
    ELSE [c EXCEPT !.invoke = [selection EXCEPT !.sent = TRUE], !.send = send,
                   !.state = "streaming"]

\* The progress calls of invoke up to its first await.
BeginProgress(calls, selection, send) ==
    IF selection.state = "notfound" THEN Append(calls, Warning(selection.error))
    ELSE IF send.state = "thrown" THEN Append(calls, ErrorNotice(send.error))
    ELSE calls

\* The for await loop resumes after a step of the stream s: it goes on, ends, or
\* throws into the catch block.
Resume(c, s) ==
    IF c.state # "streaming" THEN c
    ELSE IF s.pc = "done" THEN Completed(c)
    ELSE IF s.pc = "error" THEN Failed(c, s.error)
    ELSE c

\* An invocation that has not run, for a listing and the settings of the
\* provider that owns the listed model.
NewAgent(models, vendor, configKey) ==
    [op |-> "agent", state |-> "pending", result |-> NoResult, returns |-> 0,
     invoke |-> NewInvoke(models),
     send |-> NewSend(vendor, FALSE, Undefined, configKey, PromptMessages)]

InitAgent ==
    /\ \E models \in AgentModels, v \in Vendors :
       \E configKey \in (IF v = "ollama" THEN {Undefined} ELSE KeyValues) :
          call = NewAgent(models, v, configKey)
    /\ stream = NoStream
    /\ token = [cancelled |-> FALSE, when |-> "never"]
    /\ progress = <<>>

\* invoke is called: it refuses, fails, or holds the stream of its request.
InvokeAgent ==
    /\ call.op = "agent" /\ call.state = "pending"
    /\ call' = Begin(call, Select(call.invoke, GetLanguageModelIds(call.invoke.models)),
                     Send(call.send))
    /\ progress' = BeginProgress(progress,
                                 Select(call.invoke, GetLanguageModelIds(call.invoke.models)),
                                 Send(call.send))
    /\ stream' = IF call'.state = "streaming" THEN NewStream(call.send.vendor) ELSE stream
    /\ UNCHANGED token

\* The steps of the request of invoke: those of a request whose consumer is the
\* agent's loop, which has no break and so never returns the stream early.
AgentSuccessors(r) ==
    Successors(r, FairLines, TailChoices, PairEdge)
        \ (IF r.stream.pc = "yielded"
            THEN {Request(ReturnAtYield(r.stream), r.token, r.progress)} ELSE {})

\* A step of the stream, of its transport or of the token, and what invoke does
\* when its await settles.
AgentStep ==
    /\ call.op = "agent" /\ call.state # "pending"
    /\ \E n \in AgentSuccessors(Request(stream, token, progress)) :
          /\ stream' = n.stream /\ token' = n.token /\ progress' = n.progress
          /\ call' = Resume(call, n.stream)

NextAgent == InvokeAgent \/ AgentStep

SpecAgent == InitAgent /\ [][NextAgent]_vars

\* The progress calls that report a failure: warnings and error notices.
Reports(calls) == SelectSeq(calls, LAMBDA c : c.t \in {"notice", "warning"})

\* C31: invoke never throws and returns one result.  It returns success when
\* the stream ends normally or by cancellation, and errorDetails with the
\* message of the error when no model is found, when sendChatRequest throws and
\* when the stream throws; a failure is reported by one progress call, which is
\* the last one; and once invoke has returned, its result and the progress
\* calls stay as they are.
AgentResult ==
    /\ [](call.op = "agent" =>
            /\ call.state \in {"pending", "streaming", "returned"}
            /\ call.returns = (IF call.state = "returned" THEN 1 ELSE 0)
            /\ call.state # "returned" =>
                  call.result = NoResult /\ Reports(progress) = <<>>
            /\ call.state = "streaming" => stream.pc \notin Terminal \cup {"absent"}
            /\ call.state = "returned" =>
                  /\ call.result # NoResult
                  /\ call.invoke.state = "notfound" =>
                        /\ call.result = ErrorDetails(<<call.invoke.error>>)
                        /\ progress = <<Warning(call.invoke.error)>>
                        /\ stream = NoStream
                  /\ call.send.state = "thrown" =>
                        /\ call.result = ErrorDetails(call.send.error.message)
                        /\ progress = <<ErrorNotice(call.send.error)>>
                        /\ stream = NoStream
                  /\ stream.pc = "done" =>
                        /\ call.result = Success
                        /\ Reports(progress) = <<>>
                        /\ progress = Values(stream.delivered)
                  /\ stream.pc = "error" =>
                        /\ call.result = ErrorDetails(stream.error.message)
                        /\ Reports(progress) = <<ErrorNotice(stream.error)>>
                        /\ progress[Len(progress)] = ErrorNotice(stream.error)
                  /\ call.result = Success => stream.pc = "done")
    /\ [][(call.op = "agent" /\ call.state = "returned") =>
             /\ call' = call /\ progress' = progress]_vars

\* invoke returned errorDetails for a response that was not ok, having reported
\* it after nothing else.
AgentResultWitness ==
    /\ call.op = "agent" /\ call.state = "returned"
    /\ stream.response = "notok" /\ stream.statusText = "Unauthorized"
    /\ call.result = ErrorDetails(<<ApiName(stream.vendor), " API error: ", "Unauthorized">>)
    /\ Len(progress) = 1
====
